---- MODULE Spec2Model ----
(***************************************************************************)
(* Model of the project manager of walm (pkg/project/project.go): the five *)
(* mutating operations CreateProject, DeleteProject, AddReleasesInProject, *)
(* UpgradeReleaseInProject and RemoveReleaseInProject, run by concurrent   *)
(* callers against a shared project cache (key-value store) and a task     *)
(* broker.  Every remote call of an operation is one atomic step, so that  *)
(* the steps of concurrent calls interleave as they can in the program.    *)
(***************************************************************************)
EXTENDS Integers, Sequences, FiniteSets, TLC

VARIABLES cache, jobs, states, latest, live, calls, ret

\* one run of the dependency resolver brainFuckChartDepParse: the bundle it
\* is given, the subcharts the chart runtime declares, and its locals
VARIABLES bundle, subCharts, parse

\* one run of the dependency resolver brainFuckRuntimeDepParse: its three
\* arguments and its locals
VARIABLES projectInfo, releaseParams, isRemove, rt

\* one run of buildProjectInfo: the cache entry it is given, the releases
\* the chart runtime lists for the project, and its locals
VARIABLES projectCache, helmReleases, info

\* one run of ListProjects: its locals, and the goroutines it starts
VARIABLES listing, goroutines

vars == <<cache, jobs, states, latest, live, calls, ret, bundle, subCharts, parse,
          projectInfo, releaseParams, isRemove, rt,
          projectCache, helmReleases, info, listing, goroutines>>

managerVars == <<cache, jobs, states, latest, live, calls, ret>>
parseVars == <<bundle, subCharts, parse>>
runtimeVars == <<projectInfo, releaseParams, isRemove, rt>>
infoVars == <<projectCache, helmReleases, info>>
listVars == <<listing, goroutines>>
resolverVars == <<parseVars, runtimeVars, infoVars, listVars>>

(* ------------------------------ bounds -------------------------------- *)

\* number of signatures the broker issues: a call begins only while one is
\* left for it
MaxTasks == 2

\* number of releases in a bundle given to brainFuckChartDepParse
MaxReleases == 3

(* --------------------------- program constants ------------------------ *)

defaultTimeoutSec == 60

(* ------------------------------ domains ------------------------------- *)

\* the threads that call the manager concurrently
Callers == {1, 2}
Projects == {"p1"}
ReleaseNames == {"a"}
Ops == {"create", "delete", "add", "upgrade", "remove"}
\* the timeoutSec a caller passes: 0 asks for the default
TimeoutChoices == {0, 1}
\* the clock advances in steps of TickStep seconds; an age beyond every
\* timeout is not told from a larger one
TickStep == defaultTimeoutSec
AgeCap == defaultTimeoutSec + 1

\* the charts of the repository, in the order they are first used
ChartNames == <<"x", "y", "z">>
Charts == {ChartNames[i] : i \in 1..Len(ChartNames)}

\* a dependencies map that was never made (nil), and the empty one
NilDeps == [isNil |-> TRUE, m |-> << >>]
EmptyDeps == [isNil |-> FALSE, m |-> << >>]

\* the list a resolver returns with an error: nil
NilList == [isNil |-> TRUE, list |-> << >>]

\* no resolver run
NoParse ==
    [pc |-> "none", projectParamsMap |-> << >>, edges |-> {},
     deps |-> << >>, releaseParsed |-> << >>, err |-> "none", out |-> NilList]

\* no release: what buildReleaseRequest answers for a name that is not in
\* the project
NoRelease == [name |-> "", chartName |-> "", deps |-> NilDeps]

\* no run of brainFuckRuntimeDepParse
NoRun ==
    [pc |-> "none", edges |-> {}, upper |-> {}, down |-> {}, deps |-> NilDeps,
     affectReleases |-> << >>, err |-> "none", out |-> NilList]

\* the absent cache entry (GetProjectCache answers NotFound for it)
NoCache == [sig |-> 0, timeoutSec |-> 0]

\* a string is the sequence of its pieces, the empty string the empty
\* sequence; a nil task signature and a nil task state
NilSig == [isNil |-> TRUE, Name |-> << >>, UUID |-> << >>]
NilTask == [isNil |-> TRUE, TaskName |-> << >>, state |-> "none", Error |-> << >>]

\* no cache entry given, and no run of buildProjectInfo
NoProject == [LatestTaskSignature |-> NilSig, taskState |-> NilTask]
NoInfo ==
    [pc |-> "none", LatestTaskState |-> NilTask, Releases |-> << >>,
     Ready |-> FALSE, Message |-> << >>, err |-> "none", isNil |-> TRUE]

\* an error value is an interface of two words, its type and its data; the
\* nil error has neither
NilErr == [typ |-> "nil", data |-> "nil"]

\* the project caches a namespace can hold, in the order GetProjectCaches
\* returns them
NamespaceCaches == <<"p1", "p2", "p3">>
Goroutines == 1..Len(NamespaceCaches)

\* no run of ListProjects, and no goroutine
NoListing ==
    [pc |-> "none", projectCaches |-> << >>, spawned |-> 0, wg |-> 0,
     err |-> NilErr, Items |-> << >>, Num |-> 0, isNil |-> TRUE, result |-> "none"]
NoGoroutines == [g \in Goroutines |-> [pc |-> "none", err1 |-> "nil"]]

\* a caller that runs no operation
IdleCall ==
    [pc |-> "idle", op |-> "none", project |-> "p1", rel |-> "", async |-> TRUE,
     argTimeout |-> 0, timeoutSec |-> 0, oldSig |-> 0, newSig |-> 0,
     listed |-> FALSE, waited |-> 0, result |-> "none", errSig |-> 0]

Init ==
    /\ cache = [p \in Projects |-> NoCache]
    /\ jobs = << >>
    /\ states = << >>
    /\ latest = [p \in Projects |-> 0]
    /\ live = [p \in Projects |-> {}]
    /\ calls = [c \in Callers |-> IdleCall]
    /\ ret = IdleCall
    /\ bundle = << >>
    /\ subCharts = [c \in Charts |-> {}]
    /\ parse = NoParse
    /\ projectInfo = << >>
    /\ releaseParams = NoRelease
    /\ isRemove = FALSE
    /\ rt = NoRun
    /\ projectCache = NoProject
    /\ helmReleases = << >>
    /\ info = NoInfo
    /\ listing = NoListing
    /\ goroutines = NoGoroutines

(* ----------------------- task broker and cache ------------------------ *)

\* f with key k bound to v, and f without key k
Put(f, k, v) == [x \in DOMAIN f \cup {k} |-> IF x = k THEN v ELSE f[x]]
Drop(f, k) == [x \in DOMAIN f \ {k} |-> f[x]]

\* the number of signatures the broker has issued
Issued ==
    CHOOSE n \in 0..MaxTasks :
        /\ \A p \in Projects : latest[p] <= n
        /\ n = 0 \/ \E p \in Projects : latest[p] = n

\* the broker's record of a task's state, absent once it is purged; age is
\* the time since the task was created (now - CreatedAt), which counts only
\* while the task is not finished
TaskState(s) ==
    IF s \in DOMAIN states
    THEN [present |-> TRUE, state |-> states[s],
          age |-> IF s \in DOMAIN jobs THEN jobs[s].age ELSE 0]
    ELSE [present |-> FALSE, state |-> "none", age |-> 0]

IsSuccess(st) == st.state = "success"
IsFailure(st) == st.state = "failure"
IsFinished(st) == IsSuccess(st) \/ IsFailure(st)
IsTimedOut(age, timeoutSec) == age > timeoutSec

\* ProjectCache.IsLatestTaskFinishedOrTimeout
IsLatestTaskFinishedOrTimeout(entry) ==
    LET st == TaskState(entry.sig)
    IN  \/ ~st.present
        \/ IsFinished(st)
        \/ IsTimedOut(st.age, entry.timeoutSec)

(* --------------------------- project manager -------------------------- *)

\* only CreateProject refusing an empty release list
ChecksReleases_CreateOnly(op) == op = "create"

\* the operations that begin with: if len(projectParams.Releases) == 0
ChecksReleases(op) == op \in {"create", "add"}

\* AddReleasesInProject passing allowProjectNotExist = false
AllowProjectNotExist_CreateOnly(op) == op = "create"

\* allowProjectNotExist, as each operation passes it to validateProjectTask
AllowProjectNotExist(op) == op \in {"create", "add"}

\* DeleteProject returning the NotFound error of the validation
SwallowsNotFound_NotDelete(op) == op \in {"upgrade", "remove"}

\* delete, upgrade and remove answer nil when validation finds no project
SwallowsNotFound(op) == op \in {"delete", "upgrade", "remove"}

\* upgrade answering nil, as remove does, for a release not in the project
MissingReleaseResult_AllNil(op) == "nil"

\* remove answering the error of upgrade for a release not in the project
MissingReleaseResult_AllError(op) == "ReleaseNotInProject"

\* what upgrade and remove answer when the release is not in the project
MissingReleaseResult(op) == IF op = "upgrade" THEN "ReleaseNotInProject" ELSE "nil"

\* AddReleasesInProject sending the task of CreateProject
TaskKindOf_AddSendsCreate(op) == IF op = "add" THEN "create" ELSE op

\* the task each operation sends (SendCreateProjectTask, ...)
TaskKindOf(op) == op

\* the timeout left as the caller passed it
NormalizeTimeout_Missing(t) == t

\* if timeoutSec == 0 { timeoutSec = defaultTimeoutSec }
NormalizeTimeout(t) == IF t = 0 THEN defaultTimeoutSec ELSE t

\* validateProjectTask without the check of the latest task
validateProjectTask_NoBusyCheck(p, allowProjectNotExist, getOk) ==
    IF ~getOk THEN [cache |-> NoCache, err |-> "TransportError", errSig |-> 0]
    ELSE IF cache[p] = NoCache
    THEN IF ~allowProjectNotExist
         THEN [cache |-> NoCache, err |-> "NotFound", errSig |-> 0]
         ELSE [cache |-> NoCache, err |-> "nil", errSig |-> 0]
    ELSE [cache |-> cache[p], err |-> "nil", errSig |-> 0]

\* validateProjectTask with a busy message that names no signature
validateProjectTask_BusyUnnamed(p, allowProjectNotExist, getOk) ==
    IF ~getOk THEN [cache |-> NoCache, err |-> "TransportError", errSig |-> 0]
    ELSE IF cache[p] = NoCache
    THEN IF ~allowProjectNotExist
         THEN [cache |-> NoCache, err |-> "NotFound", errSig |-> 0]
         ELSE [cache |-> NoCache, err |-> "nil", errSig |-> 0]
    ELSE IF ~IsLatestTaskFinishedOrTimeout(cache[p])
         THEN [cache |-> cache[p], err |-> "ProjectBusy", errSig |-> 0]
         ELSE [cache |-> cache[p], err |-> "nil", errSig |-> 0]

\* validateProjectTask holding the project busy until the task is finished,
\* however old the task is
validateProjectTask_BusyUntilFinished(p, allowProjectNotExist, getOk) ==
    IF ~getOk THEN [cache |-> NoCache, err |-> "TransportError", errSig |-> 0]
    ELSE IF cache[p] = NoCache
    THEN IF ~allowProjectNotExist
         THEN [cache |-> NoCache, err |-> "NotFound", errSig |-> 0]
         ELSE [cache |-> NoCache, err |-> "nil", errSig |-> 0]
    ELSE IF TaskState(cache[p].sig).present /\ ~IsFinished(TaskState(cache[p].sig))
         THEN [cache |-> cache[p], err |-> "ProjectBusy", errSig |-> cache[p].sig]
         ELSE [cache |-> cache[p], err |-> "nil", errSig |-> 0]

\* the validation that keeps a project busy after its latest task failed
validateProjectTask_BusyAfterFailure(p, allowProjectNotExist, getOk) ==
    IF ~getOk THEN [cache |-> NoCache, err |-> "TransportError", errSig |-> 0]
    ELSE IF cache[p] = NoCache
    THEN IF ~allowProjectNotExist
         THEN [cache |-> NoCache, err |-> "NotFound", errSig |-> 0]
         ELSE [cache |-> NoCache, err |-> "nil", errSig |-> 0]
    ELSE IF \/ ~IsLatestTaskFinishedOrTimeout(cache[p])
            \/ IsFailure(TaskState(cache[p].sig))
         THEN [cache |-> cache[p], err |-> "ProjectBusy", errSig |-> cache[p].sig]
         ELSE [cache |-> cache[p], err |-> "nil", errSig |-> 0]

\* validateProjectTask: the cache entry it returns, its error, and the
\* signature the message of the busy error names
\* (projectCache.LatestTaskSignature.Name and .UUID)
validateProjectTask(p, allowProjectNotExist, getOk) ==
    IF ~getOk THEN [cache |-> NoCache, err |-> "TransportError", errSig |-> 0]
    ELSE IF cache[p] = NoCache
    THEN IF ~allowProjectNotExist
         THEN [cache |-> NoCache, err |-> "NotFound", errSig |-> 0]
         ELSE [cache |-> NoCache, err |-> "nil", errSig |-> 0]
    ELSE IF ~IsLatestTaskFinishedOrTimeout(cache[p])
         THEN [cache |-> cache[p], err |-> "ProjectBusy", errSig |-> cache[p].sig]
         ELSE [cache |-> cache[p], err |-> "nil", errSig |-> 0]

\* the call returns res to its caller
Done(call, res) == [call EXCEPT !.pc = "done", !.result = res]

\* what the caller of a returned call knows of it: the operation, its
\* arguments (release, async, timeoutSec), its result with the signature a busy
\* message names, and for the properties below the signature it was issued,
\* the old signature it held and whether it listed the releases
Returned(call) ==
    [IdleCall EXCEPT !.pc = "done", !.op = call.op, !.project = call.project,
                     !.rel = call.rel, !.async = call.async,
                     !.argTimeout = call.argTimeout, !.result = call.result,
                     !.oldSig = call.oldSig, !.newSig = call.newSig,
                     !.listed = call.listed, !.errSig = call.errSig]

\* caller c moves on to nxt; a call that returns leaves its caller idle, and
\* ret shows the call that returned during the step just taken
Step(c, nxt) ==
    /\ calls' = [calls EXCEPT ![c] = IF nxt.pc = "done" THEN IdleCall ELSE nxt]
    /\ ret' = IF nxt.pc = "done" THEN Returned(nxt) ELSE IdleCall

\* the call waiting for its task even when async
AfterPurge_AlwaysWaits(call) ==
    [call EXCEPT !.pc = "await", !.waited = 0, !.oldSig = 0]

\* the call is past the cache write and the purge: it waits unless async;
\* oldProjectCache is not read again, and the wait holds no old signature
AfterPurge(call) ==
    IF call.async THEN Done(call, "nil")
    ELSE [call EXCEPT !.pc = "await", !.waited = 0, !.oldSig = 0]

\* the calls in progress
Active == {c \in Callers : calls[c].pc # "idle"}

\* a caller enters one of the five operations; the operation runs up to
\* and including its single-flight validation.  The arguments async and
\* timeoutSec are drawn at the cache write, the first step they bear on.
Validate(c) ==
    /\ calls[c].pc = "idle"
    /\ \A d \in Callers : d < c => calls[d].pc # "idle"
    /\ Issued + Cardinality(Active) < MaxTasks
    /\ \E op \in Ops, p \in Projects, rel \in ReleaseNames \cup {""},
          getOk \in BOOLEAN :
        /\ op = "delete" => rel = ""
        /\ op \in {"upgrade", "remove"} => rel # ""
        /\ LET call == [IdleCall EXCEPT !.op = op, !.project = p, !.rel = rel]
               r == validateProjectTask(p, AllowProjectNotExist(op), getOk)
           IN  Step(c,
                 IF ChecksReleases(op) /\ rel = ""
                 THEN Done(call, "EmptyReleases")
                 ELSE IF r.err # "nil"
                 THEN IF SwallowsNotFound(op) /\ r.err = "NotFound"
                      THEN Done(call, "nil")
                      ELSE Done([call EXCEPT !.errSig = r.errSig], r.err)
                 ELSE IF op \in {"upgrade", "remove"}
                 THEN [call EXCEPT !.pc = "info", !.oldSig = r.cache.sig]
                 ELSE [call EXCEPT !.pc = "submit", !.oldSig = r.cache.sig])
    /\ UNCHANGED <<cache, jobs, states, latest, live>>
    /\ UNCHANGED resolverVars

\* upgrade and remove: buildProjectInfo and the scan of its releases
BuildInfo(c) ==
    /\ calls[c].pc = "info"
    /\ \E listOk \in BOOLEAN :
        LET call == [calls[c] EXCEPT !.listed = TRUE]
            releaseExistsInProject == call.rel \in live[call.project]
        IN  Step(c,
              IF ~listOk THEN Done(call, "TransportError")
              ELSE IF ~releaseExistsInProject
              THEN Done(call, MissingReleaseResult(call.op))
              ELSE [call EXCEPT !.pc = "submit"])
    /\ UNCHANGED <<cache, jobs, states, latest, live>>
    /\ UNCHANGED resolverVars

\* the submit that purges the state of the previous task when it fails
Submit_PurgesOnFailure(c) ==
    /\ calls[c].pc = "submit"
    /\ \E ok \in BOOLEAN :
        LET call == calls[c]
            sig == Issued + 1
        IN  IF ok
            THEN /\ jobs' = Put(jobs, sig,
                        [kind |-> TaskKindOf(call.op), project |-> call.project,
                         rel |-> call.rel, age |-> 0])
                 /\ states' = Put(states, sig, "pending")
                 /\ latest' = [latest EXCEPT ![call.project] = sig]
                 /\ Step(c, [call EXCEPT !.pc = "write", !.newSig = sig])
            ELSE /\ Step(c, Done(call, "TransportError"))
                 /\ states' = Drop(states, call.oldSig)
                 /\ UNCHANGED <<jobs, latest>>
    /\ UNCHANGED <<cache, live>>
    /\ UNCHANGED resolverVars

\* the task is sent to the broker, which answers with its signature
Submit(c) ==
    /\ calls[c].pc = "submit"
    /\ \E ok \in BOOLEAN :
        LET call == calls[c]
            sig == Issued + 1
        IN  IF ok
            THEN /\ jobs' = Put(jobs, sig,
                        [kind |-> TaskKindOf(call.op), project |-> call.project,
                         rel |-> call.rel, age |-> 0])
                 /\ states' = Put(states, sig, "pending")
                 /\ latest' = [latest EXCEPT ![call.project] = sig]
                 /\ Step(c, [call EXCEPT !.pc = "write", !.newSig = sig])
            ELSE /\ Step(c, Done(call, "TransportError"))
                 /\ UNCHANGED <<jobs, states, latest>>
    /\ UNCHANGED <<cache, live>>
    /\ UNCHANGED resolverVars

\* the cache write with its error dropped: the call goes on as if written
WriteCache_IgnoresError(c) ==
    /\ calls[c].pc = "write"
    /\ \E ok \in BOOLEAN, async \in BOOLEAN, t \in TimeoutChoices :
        LET call == [calls[c] EXCEPT !.async = async, !.argTimeout = t,
                                     !.timeoutSec = NormalizeTimeout(t)]
        IN  /\ cache' = IF ok
                        THEN [cache EXCEPT ![call.project] =
                                [sig |-> call.newSig, timeoutSec |-> call.timeoutSec]]
                        ELSE cache
            /\ Step(c, IF call.oldSig # 0
                        THEN [call EXCEPT !.pc = "purge"]
                        ELSE AfterPurge(call))
    /\ UNCHANGED <<jobs, states, latest, live>>
    /\ UNCHANGED resolverVars

\* CreateOrUpdateProjectCache with the new signature and the normalized
\* timeout; a write that fails returns its error whatever async and
\* timeoutSec are, so they are drawn for the write that succeeds
WriteCache(c) ==
    /\ calls[c].pc = "write"
    /\ \E ok \in BOOLEAN :
        IF ok
        THEN \E async \in BOOLEAN, t \in TimeoutChoices :
            LET call == [calls[c] EXCEPT !.async = async, !.argTimeout = t,
                                         !.timeoutSec = NormalizeTimeout(t)]
            IN  /\ cache' = [cache EXCEPT ![call.project] =
                        [sig |-> call.newSig, timeoutSec |-> call.timeoutSec]]
                /\ Step(c, IF call.oldSig # 0
                            THEN [call EXCEPT !.pc = "purge"]
                            ELSE AfterPurge(call))
        ELSE /\ Step(c, Done(calls[c], "TransportError"))
             /\ UNCHANGED cache
    /\ UNCHANGED <<jobs, states, latest, live>>
    /\ UNCHANGED resolverVars

\* the purge of the state of the task the call has just submitted
Purge_NewSignature(c) ==
    /\ calls[c].pc = "purge"
    /\ \E ok \in BOOLEAN :
        states' = IF ok THEN Drop(states, calls[c].newSig) ELSE states
    /\ Step(c, AfterPurge(calls[c]))
    /\ UNCHANGED <<cache, jobs, latest, live>>
    /\ UNCHANGED resolverVars

\* the purge with its error returned to the caller
Purge_ErrorReturned(c) ==
    /\ calls[c].pc = "purge"
    /\ \E ok \in BOOLEAN :
        /\ states' = IF ok THEN Drop(states, calls[c].oldSig) ELSE states
        /\ Step(c, IF ok THEN AfterPurge(calls[c])
                    ELSE Done(calls[c], "TransportError"))
    /\ UNCHANGED <<cache, jobs, latest, live>>
    /\ UNCHANGED resolverVars

\* PurgeTaskState of the signature read at validation; a failure is logged
Purge(c) ==
    /\ calls[c].pc = "purge"
    /\ \E ok \in BOOLEAN :
        states' = IF ok THEN Drop(states, calls[c].oldSig) ELSE states
    /\ Step(c, AfterPurge(calls[c]))
    /\ UNCHANGED <<cache, jobs, latest, live>>
    /\ UNCHANGED resolverVars

\* asyncResult.GetWithTimeout: polls the task state until it is finished
\* or the timer of timeoutSec seconds has fired; the errors it can answer
\* with now ("nil" with the results of a successful task)
GetWithTimeout(call) ==
    LET st == TaskState(call.newSig)
    IN  {e \in {"nil", "TaskFailure", "Timeout"} :
           \/ e = "nil" /\ st.present /\ IsSuccess(st)
           \/ e = "TaskFailure" /\ st.present /\ IsFailure(st)
           \/ e = "Timeout" /\ call.waited >= call.timeoutSec}

\* the error of the wait dropped: the call answers nil whatever the task did
AwaitResult_ErrorDropped(err) == "nil"

\* if err != nil { return err }; return nil
AwaitResult(err) == err

\* the synchronous call waits for its task and returns
Await(c) ==
    /\ calls[c].pc = "await"
    /\ \E err \in GetWithTimeout(calls[c]) :
          Step(c, Done(calls[c], AwaitResult(err)))
    /\ UNCHANGED <<cache, jobs, states, latest, live>>
    /\ UNCHANGED resolverVars

(* ----------------------------- environment ---------------------------- *)

\* an age after TickStep more seconds
Older(age) == IF age + TickStep > AgeCap THEN AgeCap ELSE age + TickStep

\* the time a call has waited, after TickStep more seconds: the timer of a
\* wait fires at timeoutSec, so a wait of the longest timeout is not told
\* from a longer one (no timeout of TimeoutChoices is beyond the default)
Longer(waited) ==
    IF waited + TickStep > defaultTimeoutSec THEN defaultTimeoutSec
    ELSE waited + TickStep

\* time passes: the unfinished tasks and the waiting calls grow older
Tick ==
    /\ jobs' = [s \in DOMAIN jobs |-> [jobs[s] EXCEPT !.age = Older(@)]]
    /\ calls' = [c \in Callers |->
          IF calls[c].pc = "await" THEN [calls[c] EXCEPT !.waited = Longer(@)]
          ELSE calls[c]]
    /\ ret' = IdleCall
    /\ UNCHANGED <<cache, states, latest, live>>
    /\ UNCHANGED resolverVars

\* a worker runs the task to its end and the task leaves the queue; a
\* successful task has changed the project, and a successful delete has
\* removed the cache entry
TaskFinish(s) ==
    /\ \E ok \in BOOLEAN :
        LET t == jobs[s]
        IN  /\ states' = Put(states, s, IF ok THEN "success" ELSE "failure")
            /\ live' = IF ~ok THEN live
                       ELSE IF t.kind \in {"create", "add"}
                       THEN [live EXCEPT ![t.project] = @ \cup {t.rel}]
                       ELSE IF t.kind = "remove"
                       THEN [live EXCEPT ![t.project] = @ \ {t.rel}]
                       ELSE IF t.kind = "delete"
                       THEN [live EXCEPT ![t.project] = {}]
                       ELSE live
            /\ cache' = IF ok /\ t.kind = "delete"
                        THEN [cache EXCEPT ![t.project] = NoCache]
                        ELSE cache
    /\ jobs' = Drop(jobs, s)
    /\ ret' = IdleCall
    /\ UNCHANGED <<latest, calls>>
    /\ UNCHANGED resolverVars

Next ==
    \/ \E c \in Callers : Validate(c)
    \/ \E c \in Callers : BuildInfo(c)
    \/ \E c \in Callers : Submit(c)
    \/ \E c \in Callers : WriteCache(c)
    \/ \E c \in Callers : Purge(c)
    \/ \E c \in Callers : Await(c)
    \/ Tick
    \/ \E s \in DOMAIN jobs : TaskFinish(s)

Spec == Init /\ [][Next]_vars

\* a signature the broker issued before the calls of the model, for a task
\* that has finished
Earlier == MaxTasks + 1

\* the manager on a project that exists: its cache entry holds the
\* signature of an earlier task, which has finished
ExistingInit ==
    /\ cache = [p \in Projects |-> [sig |-> Earlier, timeoutSec |-> defaultTimeoutSec]]
    /\ jobs = << >>
    /\ states \in [{Earlier} -> {"success", "failure"}]
    /\ latest = [p \in Projects |-> 0]
    /\ live \in [Projects -> SUBSET ReleaseNames]
    /\ calls = [c \in Callers |-> IdleCall]
    /\ ret = IdleCall
    /\ bundle = << >>
    /\ subCharts = [c \in Charts |-> {}]
    /\ parse = NoParse
    /\ projectInfo = << >>
    /\ releaseParams = NoRelease
    /\ isRemove = FALSE
    /\ rt = NoRun
    /\ projectCache = NoProject
    /\ helmReleases = << >>
    /\ info = NoInfo
    /\ listing = NoListing
    /\ goroutines = NoGoroutines

ExistingSpec == ExistingInit /\ [][Next]_vars

\* time passes, and a waiting call is scheduled again and again
Fairness == WF_vars(Tick) /\ \A c \in Callers : WF_vars(Await(c))

LiveSpec == Spec /\ Fairness

TypeOK ==
    /\ \A p \in Projects : cache[p].sig \in 0..MaxTasks
    /\ DOMAIN jobs \subseteq 1..Issued
    /\ DOMAIN states \subseteq 1..Issued
    /\ \A c \in Callers : calls[c].pc \in
         {"idle", "info", "submit", "write", "purge", "await"}
    /\ ret.pc \in {"idle", "done"}

(* ------------------ dependency resolver: chart time -------------------- *)

\* the releases of the bundle; release i is the i-th of projectParams.Releases
\* and its name is i
Ids == 1..Len(bundle)

\* the dependencies map {chart: name} a user declares
UserDeclared(chart, name) == [isNil |-> FALSE, m |-> [k \in {chart} |-> name]]

\* charts are named in the order of their first use in the bundle
FirstUse(charts) ==
    \A i \in DOMAIN charts : \A j \in 1..Len(ChartNames) :
        (ChartNames[j] = charts[i]) =>
            \A k \in 1..(j - 1) : \E h \in 1..(i - 1) : charts[h] = ChartNames[k]

\* a bundle of n releases: charts[i] is the chart of release i, and d[i]
\* says whether its dependencies map is nil (-1), empty (0) or declares
\* release d[i] under the name of that release's chart
BundleOf(n, charts, d) ==
    [i \in 1..n |->
        [name |-> i, chartName |-> charts[i],
         deps |-> IF d[i] = -1 THEN NilDeps
                  ELSE IF d[i] = 0 THEN EmptyDeps
                  ELSE UserDeclared(charts[d[i]], d[i])]]

\* helmClient.GetAutoDependencies: the subcharts the chart declares
GetAutoDependencies(chart) == subCharts[chart]

\* the vertices without incoming edges
Roots(vertices, edges) == {v \in vertices : ~\E u \in vertices : <<u, v>> \in edges}

\* some vertices lie on a cycle of the edges
HasCycle(vertices, edges) ==
    \E S \in SUBSET vertices :
        S # {} /\ \A v \in S : \E w \in S : <<v, w>> \in edges

\* g.DownEdges(v): the vertices v has an edge to
DownEdges(v, edges) == {e[2] : e \in {d \in edges : d[1] = v}}

\* g.UpEdges(v): the vertices that have an edge to v
UpEdges(v, edges) == {e[1] : e \in {d \in edges : d[2] = v}}

\* the releases appended to releaseParsed so far
Visited == {parse.releaseParsed[k] : k \in DOMAIN parse.releaseParsed}

\* the callback filling a new map instead of the one the release has
WithDownEdges_Fresh(v, m) ==
    [k \in {bundle[w].chartName : w \in DownEdges(v, parse.edges)} |->
        CHOOSE w \in DownEdges(v, parse.edges) : bundle[w].chartName = k]

\* the map of release v after the callback has set
\* Dependencies[releaseInfo.ChartName] = releaseInfo.Name for each down edge
WithDownEdges(v, m) ==
    [k \in DOMAIN m \cup {bundle[w].chartName : w \in DownEdges(v, parse.edges)} |->
        IF \E w \in DownEdges(v, parse.edges) : bundle[w].chartName = k
        THEN CHOOSE w \in DownEdges(v, parse.edges) : bundle[w].chartName = k
        ELSE m[k]]

ParseInit ==
    /\ cache = [p \in Projects |-> NoCache]
    /\ jobs = << >>
    /\ states = << >>
    /\ latest = [p \in Projects |-> 0]
    /\ live = [p \in Projects |-> {}]
    /\ calls = [c \in Callers |-> IdleCall]
    /\ ret = IdleCall
    /\ subCharts \in {f \in [Charts -> SUBSET Charts] : \A c \in Charts : c \notin f[c]}
    /\ \E n \in 1..MaxReleases :
         \E charts \in [1..n -> Charts], d \in [1..n -> -1..n] :
            /\ FirstUse(charts)
            /\ \A i \in 1..n : d[i] # i
            /\ bundle = BundleOf(n, charts, d)
    /\ parse = [NoParse EXCEPT !.pc = "build",
                               !.deps = [i \in Ids |-> bundle[i].deps]]
    /\ projectInfo = << >>
    /\ releaseParams = NoRelease
    /\ isRemove = FALSE
    /\ rt = NoRun
    /\ projectCache = NoProject
    /\ helmReleases = << >>
    /\ info = NoInfo
    /\ listing = NoListing
    /\ goroutines = NoGoroutines

\* projectParamsMap keeping the first release of each chart
ProjectParamsMap_FirstWins ==
    [c \in {bundle[i].chartName : i \in Ids} |->
        CHOOSE i \in Ids :
            /\ bundle[i].chartName = c
            /\ \A j \in Ids : bundle[j].chartName = c => i <= j]

\* lines 531-533: projectParamsMap[releaseInfo.ChartName] = releaseInfo; a
\* later release of the same chart replaces the earlier one
ProjectParamsMap ==
    [c \in {bundle[i].chartName : i \in Ids} |->
        CHOOSE i \in Ids :
            /\ bundle[i].chartName = c
            /\ \A j \in Ids : bundle[j].chartName = c => j <= i]

\* lines 547-552: the edges from helmRelease, one for each of its subcharts
\* that is in projectParamsMap (ok) and not in helmRelease.Dependencies (ok2)
EdgesFrom(helmRelease, projectParamsMap) ==
    {<<helmRelease, projectParamsMap[subChartName]>> :
        subChartName \in
            {sc \in GetAutoDependencies(bundle[helmRelease].chartName) :
                LET ok == sc \in DOMAIN projectParamsMap
                    ok2 == sc \in DOMAIN bundle[helmRelease].deps.m
                IN  ok /\ ~ok2}}

\* lines 527-554: projectParamsMap, the vertices and the edges; an error of
\* GetAutoDependencies ends the run
ParseBuild ==
    /\ parse.pc = "build"
    /\ \E autoOk \in BOOLEAN :
        parse' =
          IF ~autoOk
          THEN [parse EXCEPT !.pc = "done", !.err = "TransportError"]
          ELSE [parse EXCEPT
                  !.pc = "root",
                  !.projectParamsMap = ProjectParamsMap,
                  !.edges = UNION {EdgesFrom(i, ProjectParamsMap) : i \in Ids}]
    /\ UNCHANGED <<bundle, subCharts>>
    /\ UNCHANGED managerVars
    /\ UNCHANGED <<runtimeVars, infoVars, listVars>>

\* the error of g.Root() ignored: the walk begins whatever the roots are
ParseRoot_ErrorIgnored ==
    /\ parse.pc = "root"
    /\ parse' = [parse EXCEPT !.pc = "walk"]
    /\ UNCHANGED <<bundle, subCharts>>
    /\ UNCHANGED managerVars
    /\ UNCHANGED <<runtimeVars, infoVars, listVars>>

\* lines 556-559: g.Root() must find exactly one vertex without incoming
\* edges
ParseRoot ==
    /\ parse.pc = "root"
    /\ parse' = IF Cardinality(Roots(Ids, parse.edges)) = 1
                THEN [parse EXCEPT !.pc = "walk"]
                ELSE [parse EXCEPT !.pc = "done", !.err = "NoRootOrCyclic"]
    /\ UNCHANGED <<bundle, subCharts>>
    /\ UNCHANGED managerVars
    /\ UNCHANGED <<runtimeVars, infoVars, listVars>>

\* lines 562-572: g.Walk calls the callback on v once the vertices v has
\* edges to have been visited; writing to a map that is nil panics
ParseVisit(v) ==
    /\ parse.pc = "walk"
    /\ v \notin Visited
    /\ DownEdges(v, parse.edges) \subseteq Visited
    /\ parse' =
         IF DownEdges(v, parse.edges) # {} /\ parse.deps[v].isNil
         THEN [parse EXCEPT !.pc = "done", !.err = "panic"]
         ELSE [parse EXCEPT
                 !.deps[v].m = WithDownEdges(v, @),
                 !.releaseParsed = Append(@, v)]
    /\ UNCHANGED <<bundle, subCharts>>
    /\ UNCHANGED managerVars
    /\ UNCHANGED <<runtimeVars, infoVars, listVars>>

\* lines 573-575: g.Walk fails on a graph with a cycle
ParseWalkFail ==
    /\ parse.pc = "walk"
    /\ HasCycle(Ids, parse.edges)
    /\ parse' = [parse EXCEPT !.pc = "done", !.err = "Cyclic"]
    /\ UNCHANGED <<bundle, subCharts>>
    /\ UNCHANGED managerVars
    /\ UNCHANGED <<runtimeVars, infoVars, listVars>>

\* line 577: return releaseParsed, nil
ParseReturn ==
    /\ parse.pc = "walk"
    /\ Visited = Ids
    /\ parse' = [parse EXCEPT !.pc = "done", !.err = "nil",
                               !.out = [isNil |-> FALSE, list |-> parse.releaseParsed]]
    /\ UNCHANGED <<bundle, subCharts>>
    /\ UNCHANGED managerVars
    /\ UNCHANGED <<runtimeVars, infoVars, listVars>>

ParseNext ==
    \/ ParseBuild
    \/ ParseRoot
    \/ \E v \in Ids : ParseVisit(v)
    \/ ParseWalkFail
    \/ ParseReturn

\* brainFuckChartDepParse run once on each bundle and each set of charts
ParseSpec == ParseInit /\ [][ParseNext]_vars

(* -------------------- dependency resolver: run time -------------------- *)

\* the releases a project can hold, the name of a release that is not in
\* it, and the charts of the releases
ProjectReleases == {"a", "b"}
NewRelease == "c"
RtCharts == {"x", "y"}

\* the dependencies maps: nil, or a map from some charts to release names
DepsMaps ==
    {NilDeps} \cup
    {[isNil |-> FALSE, m |-> f] :
        f \in UNION {[D -> ProjectReleases \cup {NewRelease}] : D \in SUBSET RtCharts}}

\* every project of at most two releases, every release given (one of the
\* project or a new one; its chart is the first of the charts, whatever
\* the other releases are of), every subchart relation of the charts
RuntimeInit ==
    /\ cache = [p \in Projects |-> NoCache]
    /\ jobs = << >>
    /\ states = << >>
    /\ latest = [p \in Projects |-> 0]
    /\ live = [p \in Projects |-> {}]
    /\ calls = [c \in Callers |-> IdleCall]
    /\ ret = IdleCall
    /\ bundle = << >>
    /\ parse = NoParse
    /\ subCharts \in {f \in [Charts -> SUBSET RtCharts] :
                         \A c \in Charts : c \notin f[c] /\ (c \notin RtCharts => f[c] = {})}
    /\ isRemove \in BOOLEAN
    /\ \E names \in {{}, {"a"}, {"a", "b"}} :
          projectInfo \in [names -> [chartName : RtCharts, deps : DepsMaps]]
    /\ releaseParams \in [name : {"a", NewRelease}, chartName : {"x"},
                          deps : IF isRemove THEN {EmptyDeps} ELSE DepsMaps]
    /\ rt = [NoRun EXCEPT !.pc = "build", !.deps = releaseParams.deps]
    /\ projectCache = NoProject
    /\ helmReleases = << >>
    /\ info = NoInfo
    /\ listing = NoListing
    /\ goroutines = NoGoroutines

\* buildReleaseRequest: the release of that name in the project as a
\* request, or nil
buildReleaseRequest(name) ==
    IF name \in DOMAIN projectInfo
    THEN [name |-> name, chartName |-> projectInfo[name].chartName,
          deps |-> projectInfo[name].deps]
    ELSE NoRelease

\* helm.DeleteReleaseDependency: the map without the entry of that key
DeleteReleaseDependency(deps, key) ==
    [deps EXCEPT !.m = [k \in DOMAIN deps.m \ {key} |-> deps.m[k]]]

\* the map with key bound to value unless it has the key already; a nil map
\* is made first
WithDependency(deps, key, value) ==
    IF key \in DOMAIN deps.m THEN deps
    ELSE [isNil |-> FALSE,
          m |-> [k \in DOMAIN deps.m \cup {key} |-> IF k = key THEN value ELSE deps.m[k]]]

\* the edges of the dependencies going to the chart named instead of the
\* release
InitEdges_ByKey ==
    UNION {{<<h, k>> : k \in DOMAIN projectInfo[h].deps.m} : h \in DOMAIN projectInfo}

\* lines 444-448: an edge from each release of the project to each value of
\* its Dependencies
InitEdges ==
    UNION {{<<h, projectInfo[h].deps.m[k]>> : k \in DOMAIN projectInfo[h].deps.m} :
             h \in DOMAIN projectInfo}

\* the edges to the release given, from the releases that list its chart
\* already
UpperEdges_OnlyListed ==
    {<<h, releaseParams.name>> :
        h \in {helmRelease \in DOMAIN projectInfo :
                 \E subChartName \in GetAutoDependencies(projectInfo[helmRelease].chartName) :
                    LET ok == subChartName \in DOMAIN projectInfo[helmRelease].deps.m
                    IN  subChartName = releaseParams.chartName /\ ok}}

\* lines 452-463: an edge to the release given from each release of the
\* project whose chart has the chart of the release given as a subchart that
\* is not a key of its Dependencies
UpperEdges ==
    {<<h, releaseParams.name>> :
        h \in {helmRelease \in DOMAIN projectInfo :
                 \E subChartName \in GetAutoDependencies(projectInfo[helmRelease].chartName) :
                    LET ok == subChartName \in DOMAIN projectInfo[helmRelease].deps.m
                    IN  subChartName = releaseParams.chartName /\ ~ok}}

\* lines 464-478: an edge from the release given to each release of the
\* project whose chart is a subchart of its chart that is not a key of its
\* Dependencies
LowerEdges ==
    {<<releaseParams.name, h>> :
        h \in {helmRelease \in DOMAIN projectInfo :
                 \E releaseSubChart \in GetAutoDependencies(releaseParams.chartName) :
                    LET ok == releaseSubChart \in DOMAIN releaseParams.deps.m
                    IN  ~ok /\ releaseSubChart = projectInfo[helmRelease].chartName}}

\* the graph built with a check for cycles, whose error ends the run
RtBuild_ChecksCycle ==
    /\ rt.pc = "build"
    /\ \E autoOk \in BOOLEAN :
        LET edges == IF isRemove THEN InitEdges
                     ELSE InitEdges \cup UpperEdges \cup LowerEdges
        IN  rt' = IF ~isRemove /\ ~autoOk
                  THEN [rt EXCEPT !.pc = "done", !.err = "TransportError"]
                  ELSE IF HasCycle(DOMAIN projectInfo \cup {releaseParams.name}, edges)
                  THEN [rt EXCEPT !.pc = "done", !.err = "Cyclic"]
                  ELSE [rt EXCEPT !.pc = "upper", !.edges = edges]
    /\ UNCHANGED <<projectInfo, releaseParams, isRemove>>
    /\ UNCHANGED managerVars
    /\ UNCHANGED <<parseVars, infoVars, listVars>>

\* lines 435-478: the graph; on the add/upgrade path an error of
\* GetAutoDependencies ends the run
RtBuild ==
    /\ rt.pc = "build"
    /\ \E autoOk \in BOOLEAN :
        rt' = IF isRemove
              THEN [rt EXCEPT !.pc = "upper", !.edges = InitEdges]
              ELSE IF ~autoOk
              THEN [rt EXCEPT !.pc = "done", !.err = "TransportError"]
              ELSE [rt EXCEPT !.pc = "upper",
                              !.edges = InitEdges \cup UpperEdges \cup LowerEdges]
    /\ UNCHANGED <<projectInfo, releaseParams, isRemove>>
    /\ UNCHANGED managerVars
    /\ UNCHANGED <<parseVars, infoVars, listVars>>

\* lines 485-492: the upper release gets the chart of the release given in
\* its Dependencies unless it has that key, and is appended in either case
Emit(upperRelease) ==
    <<[upperRelease EXCEPT
         !.deps = WithDependency(@, releaseParams.chartName, releaseParams.name)]>>

\* lines 480-493 and 512-520: one turn of the loop over
\* g.UpEdges(releaseParams.Name), in the order the set gives them
RtUpper(upperReleaseName) ==
    /\ rt.pc = "upper"
    /\ upperReleaseName \in UpEdges(releaseParams.name, rt.edges) \ rt.upper
    /\ LET upperRelease == buildReleaseRequest(upperReleaseName)
       IN  rt' =
             IF upperRelease = NoRelease
             THEN [rt EXCEPT !.upper = @ \cup {upperReleaseName}]
             ELSE IF isRemove
             THEN [rt EXCEPT
                     !.upper = @ \cup {upperReleaseName},
                     !.affectReleases = Append(@,
                         [upperRelease EXCEPT
                            !.deps = DeleteReleaseDependency(@, releaseParams.chartName)])]
             ELSE [rt EXCEPT
                     !.upper = @ \cup {upperReleaseName},
                     !.affectReleases = @ \o Emit(upperRelease)]
    /\ UNCHANGED <<projectInfo, releaseParams, isRemove>>
    /\ UNCHANGED managerVars
    /\ UNCHANGED <<parseVars, infoVars, listVars>>

\* the loop over the upper releases is over
RtUpperDone ==
    /\ rt.pc = "upper"
    /\ UpEdges(releaseParams.name, rt.edges) \subseteq rt.upper
    /\ rt' = [rt EXCEPT !.pc = "down"]
    /\ UNCHANGED <<projectInfo, releaseParams, isRemove>>
    /\ UNCHANGED managerVars
    /\ UNCHANGED <<parseVars, infoVars, listVars>>

\* lines 496-509: one turn of the loop over g.DownEdges(releaseParams.Name):
\* the release given gets the chart of the down release in its
\* Dependencies unless it has that key
RtDown(downReleaseName) ==
    /\ rt.pc = "down"
    /\ ~isRemove
    /\ downReleaseName \in DownEdges(releaseParams.name, rt.edges) \ rt.down
    /\ LET downRelease == buildReleaseRequest(downReleaseName)
       IN  rt' =
             IF downRelease = NoRelease
             THEN [rt EXCEPT !.down = @ \cup {downReleaseName}]
             ELSE [rt EXCEPT
                     !.down = @ \cup {downReleaseName},
                     !.deps = WithDependency(@, downRelease.chartName, downRelease.name)]
    /\ UNCHANGED <<projectInfo, releaseParams, isRemove>>
    /\ UNCHANGED managerVars
    /\ UNCHANGED <<parseVars, infoVars, listVars>>

\* line 523: return affectReleases, nil
RtReturn ==
    /\ rt.pc = "down"
    /\ isRemove \/ DownEdges(releaseParams.name, rt.edges) \subseteq rt.down
    /\ rt' = [rt EXCEPT !.pc = "done", !.err = "nil",
                         !.out = [isNil |-> FALSE, list |-> rt.affectReleases]]
    /\ UNCHANGED <<projectInfo, releaseParams, isRemove>>
    /\ UNCHANGED managerVars
    /\ UNCHANGED <<parseVars, infoVars, listVars>>

RuntimeNext ==
    \/ RtBuild
    \/ \E n \in ProjectReleases \cup {NewRelease} : RtUpper(n)
    \/ RtUpperDone
    \/ \E n \in ProjectReleases \cup {NewRelease} : RtDown(n)
    \/ RtReturn

\* brainFuckRuntimeDepParse run once on each project, release and set of
\* charts
RuntimeSpec == RuntimeInit /\ [][RuntimeNext]_vars

(* ----------------------- project info projection ---------------------- *)

\* the names and identifiers of task signatures, the states and error texts
\* of tasks, and the messages of releases
TaskNames == {<<"create">>, <<"upgrade">>}
UUIDs == {<<"u1">>, <<"u2">>}
TaskStates == {"pending", "started", "success", "failure"}
ErrorTexts == {<< >>, <<"kubelet EOF">>}
ReleaseMessages == {<< >>, <<"m1">>, <<"m2">>}

\* the values of a release buildProjectInfo reads
ReleaseInfos == [Ready : BOOLEAN, Message : ReleaseMessages]

\* the lists of at most MaxReleases releases
ReleaseLists == UNION {[1..n -> ReleaseInfos] : n \in 0..MaxReleases}

\* the states a task of that name can have: unnamed or named, an error text
\* only with a failure
TaskStatesOf(name) ==
    {t \in [isNil : {FALSE}, TaskName : {<< >>, name}, state : TaskStates,
            Error : ErrorTexts] : t.Error # << >> => t.state = "failure"}

\* the cache entries: without a signature there is no task state; with one,
\* the task state is absent (never run, purged) or present
ProjectCaches ==
    {NoProject} \cup
    UNION {{[LatestTaskSignature |-> [isNil |-> FALSE, Name |-> n, UUID |-> u],
             taskState |-> t] : t \in {NilTask} \cup TaskStatesOf(n)} :
           n \in TaskNames, u \in UUIDs}

\* the arguments of one run of buildProjectInfo and the releases the chart
\* runtime holds for the project
InfoInit ==
    /\ cache = [p \in Projects |-> NoCache]
    /\ jobs = << >>
    /\ states = << >>
    /\ latest = [p \in Projects |-> 0]
    /\ live = [p \in Projects |-> {}]
    /\ calls = [c \in Callers |-> IdleCall]
    /\ ret = IdleCall
    /\ bundle = << >>
    /\ subCharts = [c \in Charts |-> {}]
    /\ parse = NoParse
    /\ projectInfo = << >>
    /\ releaseParams = NoRelease
    /\ isRemove = FALSE
    /\ rt = NoRun
    /\ projectCache \in ProjectCaches
    /\ helmReleases \in ReleaseLists
    /\ info = [NoInfo EXCEPT !.pc = "start"]
    /\ listing = NoListing
    /\ goroutines = NoGoroutines

\* ProjectCache.GetLatestTaskState: the state of the task of the entry's
\* signature, nil when there is none
GetLatestTaskState(entry) == entry.taskState

\* fmt.Sprintf with %s verbs only: the pieces of the format, each verb
\* replaced by the next argument
RECURSIVE Sprintf(_, _)
Sprintf(format, args) ==
    IF format = << >> THEN << >>
    ELSE IF Head(format) = "%s"
    THEN Head(args) \o Sprintf(Tail(format), Tail(args))
    ELSE <<Head(format)>> \o Sprintf(Tail(format), args)

\* the readiness with the message of the last release that is not ready
isProjectReadyByReleases_LastNotReady(releases) ==
    IF Len(releases) > 0
    THEN LET notReady == {i \in 1..Len(releases) : ~releases[i].Ready}
         IN  IF notReady = {}
             THEN [ready |-> TRUE, message |-> << >>]
             ELSE LET last == CHOOSE i \in notReady : \A j \in notReady : i >= j
                  IN  [ready |-> FALSE, message |-> releases[last].Message]
    ELSE [ready |-> FALSE, message |-> <<"no release can be found">>]

\* lines 125-139
isProjectReadyByReleases(releases) ==
    IF Len(releases) > 0
    THEN LET notReady == {i \in 1..Len(releases) : ~releases[i].Ready}
         IN  IF notReady = {}
             THEN [ready |-> TRUE, message |-> << >>]
             ELSE LET first == CHOOSE i \in notReady : \A j \in notReady : i <= j
                  IN  [ready |-> FALSE, message |-> releases[first].Message]
    ELSE [ready |-> FALSE, message |-> <<"no release can be found">>]

\* the decision with a failed task read like a successful one
ReadyAndMessage_FailureByReleases(taskState, sig, releases) ==
    IF taskState.isNil \/ taskState.TaskName = << >> \/ IsSuccess(taskState)
       \/ IsFailure(taskState)
    THEN isProjectReadyByReleases(releases)
    ELSE [ready |-> FALSE,
          message |-> Sprintf(<<"please wait for the project latest task ", "%s", "-",
                                "%s", " finished">>, <<sig.Name, sig.UUID>>)]

\* the decision with a task in progress read like a successful one
ReadyAndMessage_InProgressByReleases(taskState, sig, releases) ==
    IF taskState.isNil \/ taskState.TaskName = << >> \/ ~IsFailure(taskState)
    THEN isProjectReadyByReleases(releases)
    ELSE [ready |-> FALSE,
          message |-> Sprintf(<<"the project latest task ", "%s", "-", "%s",
                                " failed : ", "%s">>,
                              <<sig.Name, sig.UUID, taskState.Error>>)]

\* lines 112-121: Ready and Message from the task state, the signature of
\* the cache entry and the releases
ReadyAndMessage(taskState, sig, releases) ==
    IF taskState.isNil \/ taskState.TaskName = << >>
    THEN isProjectReadyByReleases(releases)
    ELSE IF IsSuccess(taskState)
    THEN isProjectReadyByReleases(releases)
    ELSE IF IsFailure(taskState)
    THEN [ready |-> FALSE,
          message |-> Sprintf(<<"the project latest task ", "%s", "-", "%s",
                                " failed : ", "%s">>,
                              <<sig.Name, sig.UUID, taskState.Error>>)]
    ELSE [ready |-> FALSE,
          message |-> Sprintf(<<"please wait for the project latest task ", "%s", "-",
                                "%s", " finished">>, <<sig.Name, sig.UUID>>)]

\* the start of buildProjectInfo with a purge of the state it has read
InfoStart_Purging ==
    /\ info.pc = "start"
    /\ info' = [info EXCEPT !.pc = "list",
                            !.LatestTaskState = GetLatestTaskState(projectCache)]
    /\ states' = [s \in DOMAIN states \ {cache["p1"].sig} |-> states[s]]
    /\ UNCHANGED <<projectCache, helmReleases>>
    /\ UNCHANGED <<cache, jobs, latest, live, calls, ret>>
    /\ UNCHANGED <<parseVars, runtimeVars, listVars>>

\* lines 92-104: the task state is read and copied into the new ProjectInfo
InfoStart ==
    /\ info.pc = "start"
    /\ info' = [info EXCEPT !.pc = "list",
                            !.LatestTaskState = GetLatestTaskState(projectCache)]
    /\ UNCHANGED <<projectCache, helmReleases>>
    /\ UNCHANGED managerVars
    /\ UNCHANGED <<parseVars, runtimeVars, listVars>>

\* lines 106-110: ListReleasesByLabels; its error is returned with no info
InfoList ==
    /\ info.pc = "list"
    /\ \E listOk \in BOOLEAN :
          info' = IF listOk
                  THEN [info EXCEPT !.pc = "decide", !.Releases = helmReleases]
                  ELSE [NoInfo EXCEPT !.pc = "done", !.err = "TransportError"]
    /\ UNCHANGED <<projectCache, helmReleases>>
    /\ UNCHANGED managerVars
    /\ UNCHANGED <<parseVars, runtimeVars, listVars>>

\* lines 112-122: Ready and Message are set and the info is returned
InfoDecide ==
    /\ info.pc = "decide"
    /\ LET taskState == GetLatestTaskState(projectCache)
           decided == ReadyAndMessage(taskState, projectCache.LatestTaskSignature,
                                      info.Releases)
       IN  info' = [info EXCEPT !.pc = "done", !.err = "nil", !.isNil = FALSE,
                                !.Ready = decided.ready, !.Message = decided.message]
    /\ UNCHANGED <<projectCache, helmReleases>>
    /\ UNCHANGED managerVars
    /\ UNCHANGED <<parseVars, runtimeVars, listVars>>

InfoNext ==
    \/ InfoStart
    \/ InfoList
    \/ InfoDecide

\* buildProjectInfo (and GetProjectInfo, which returns its result) over
\* every cache entry and release list
InfoSpec == InfoInit /\ [][InfoNext]_vars

(* --------------------------- project listing -------------------------- *)

\* one call of ListProjects on a namespace that holds some of the caches
ListInit ==
    /\ cache = [p \in Projects |-> NoCache]
    /\ jobs = << >>
    /\ states = << >>
    /\ latest = [p \in Projects |-> 0]
    /\ live = [p \in Projects |-> {}]
    /\ calls = [c \in Callers |-> IdleCall]
    /\ ret = IdleCall
    /\ bundle = << >>
    /\ subCharts = [c \in Charts |-> {}]
    /\ parse = NoParse
    /\ projectInfo = << >>
    /\ releaseParams = NoRelease
    /\ isRemove = FALSE
    /\ rt = NoRun
    /\ projectCache = NoProject
    /\ helmReleases = << >>
    /\ info = NoInfo
    /\ \E n \in 0..Len(NamespaceCaches) :
          listing = [NoListing EXCEPT !.pc = "get",
                                      !.projectCaches = SubSeq(NamespaceCaches, 1, n)]
    /\ goroutines = NoGoroutines

\* the error is nil: an interface is nil when its type word is
IsNilErr(e) == e.typ = "nil"

\* lines 43-51: GetProjectCaches; its error is returned with no list
ListGet ==
    /\ listing.pc = "get"
    /\ \E getOk \in BOOLEAN :
          listing' = IF getOk
                     THEN [listing EXCEPT !.pc = "loop"]
                     ELSE [listing EXCEPT !.pc = "done", !.projectCaches = << >>,
                                          !.result = "TransportError"]
    /\ UNCHANGED goroutines
    /\ UNCHANGED managerVars
    /\ UNCHANGED <<parseVars, runtimeVars, infoVars>>

\* lines 55-57: one turn of the loop: wg.Add(1) and the go statement
ListSpawn ==
    /\ listing.pc = "loop"
    /\ listing.spawned < Len(listing.projectCaches)
    /\ listing' = [listing EXCEPT !.spawned = @ + 1, !.wg = @ + 1]
    /\ goroutines' = [goroutines EXCEPT ![listing.spawned + 1].pc = "build"]
    /\ UNCHANGED managerVars
    /\ UNCHANGED <<parseVars, runtimeVars, infoVars>>

\* lines 59-64: the goroutine's buildProjectInfo succeeds or fails with an
\* error of its own
GoBuild(g) ==
    /\ goroutines[g].pc = "build"
    /\ \E buildOk \in BOOLEAN :
          goroutines' = [goroutines EXCEPT
                           ![g] = IF buildOk THEN [pc |-> "append", err1 |-> "nil"]
                                  ELSE [pc |-> "errTyp",
                                        err1 |-> listing.projectCaches[g]]]
    /\ UNCHANGED listing
    /\ UNCHANGED managerVars
    /\ UNCHANGED <<parseVars, runtimeVars, infoVars>>

\* line 62: err = errors.New(err1.Error()), a write of two words to the
\* variable the goroutines and the caller share, under no lock: the type
\* word
GoSetErrTyp(g) ==
    /\ goroutines[g].pc = "errTyp"
    /\ listing' = [listing EXCEPT !.err.typ = "errorString"]
    /\ goroutines' = [goroutines EXCEPT ![g].pc = "errData"]
    /\ UNCHANGED managerVars
    /\ UNCHANGED <<parseVars, runtimeVars, infoVars>>

\* line 62: the data word
GoSetErrData(g) ==
    /\ goroutines[g].pc = "errData"
    /\ listing' = [listing EXCEPT !.err.data = goroutines[g].err1]
    /\ goroutines' = [goroutines EXCEPT ![g].pc = "return"]
    /\ UNCHANGED managerVars
    /\ UNCHANGED <<parseVars, runtimeVars, infoVars>>

\* lines 65-67: the info is appended under the mutex
GoAppend(g) ==
    /\ goroutines[g].pc = "append"
    /\ listing' = [listing EXCEPT !.Items = Append(@, listing.projectCaches[g])]
    /\ goroutines' = [goroutines EXCEPT ![g].pc = "return"]
    /\ UNCHANGED managerVars
    /\ UNCHANGED <<parseVars, runtimeVars, infoVars>>

\* line 58: the deferred wg.Done()
GoDone(g) ==
    /\ goroutines[g].pc = "return"
    /\ listing' = [listing EXCEPT !.wg = @ - 1]
    /\ goroutines' = [goroutines EXCEPT ![g].pc = "done"]
    /\ UNCHANGED managerVars
    /\ UNCHANGED <<parseVars, runtimeVars, infoVars>>

\* lines 72-78: err is read; with an error no list is returned
ListReturn ==
    IF ~IsNilErr(listing.err)
    THEN [listing EXCEPT !.pc = "done", !.result = listing.err.data]
    ELSE [listing EXCEPT !.pc = "done", !.result = "nil", !.isNil = FALSE,
                         !.Num = Len(listing.Items)]

\* the return without the wait for the goroutines
ListWait_NoJoin ==
    /\ listing.pc = "loop"
    /\ listing.spawned = Len(listing.projectCaches)
    /\ listing' = ListReturn
    /\ UNCHANGED goroutines
    /\ UNCHANGED managerVars
    /\ UNCHANGED <<parseVars, runtimeVars, infoVars>>

\* lines 71-78: after the loop wg.Wait() returns once the counter is zero;
\* then err is read and the call returns
ListWait ==
    /\ listing.pc = "loop"
    /\ listing.spawned = Len(listing.projectCaches)
    /\ listing.wg = 0
    /\ listing' = ListReturn
    /\ UNCHANGED goroutines
    /\ UNCHANGED managerVars
    /\ UNCHANGED <<parseVars, runtimeVars, infoVars>>

ListNext ==
    \/ ListGet
    \/ ListSpawn
    \/ \E g \in Goroutines : GoBuild(g)
    \/ \E g \in Goroutines : GoSetErrTyp(g)
    \/ \E g \in Goroutines : GoSetErrData(g)
    \/ \E g \in Goroutines : GoAppend(g)
    \/ \E g \in Goroutines : GoDone(g)
    \/ ListWait

\* ListProjects over every number of caches and every interleaving of its
\* goroutines
ListSpec == ListInit /\ [][ListNext]_vars

(* --------------------------- read operations -------------------------- *)

\* the signature the broker issued for the task of the entry given
StoredSig(entry) == IF entry.LatestTaskSignature.isNil THEN 0 ELSE 1

\* the task of the entry is with the broker still: its state is present and
\* not final
Queued(entry) ==
    ~entry.taskState.isNil /\ entry.taskState.state \in {"pending", "started"}

\* a call of GetProjectInfo or of ListProjects on a project whose cache
\* entry, task and task state are in the store and with the broker
ReadInit ==
    /\ projectCache \in ProjectCaches
    /\ cache = [p \in Projects |->
                  IF StoredSig(projectCache) = 0 THEN NoCache
                  ELSE [sig |-> StoredSig(projectCache),
                        timeoutSec |-> defaultTimeoutSec]]
    /\ latest = [p \in Projects |-> StoredSig(projectCache)]
    /\ states = IF projectCache.taskState.isNil THEN << >>
                ELSE [s \in {StoredSig(projectCache)} |-> projectCache.taskState.state]
    /\ jobs = IF Queued(projectCache)
              THEN [s \in {StoredSig(projectCache)} |->
                      [kind |-> "create", project |-> "p1", rel |-> "a", age |-> 0]]
              ELSE << >>
    /\ live \in [Projects -> SUBSET ReleaseNames]
    /\ calls = [c \in Callers |-> IdleCall]
    /\ ret = IdleCall
    /\ bundle = << >>
    /\ subCharts = [c \in Charts |-> {}]
    /\ parse = NoParse
    /\ projectInfo = << >>
    /\ releaseParams = NoRelease
    /\ isRemove = FALSE
    /\ rt = NoRun
    /\ goroutines = NoGoroutines
    /\ \/ /\ helmReleases \in ReleaseLists
          /\ info = [NoInfo EXCEPT !.pc = "get"]
          /\ listing = NoListing
       \/ /\ helmReleases = << >>
          /\ info = NoInfo
          /\ \E n \in 0..Len(NamespaceCaches) :
                listing = [NoListing EXCEPT !.pc = "get",
                                            !.projectCaches = SubSeq(NamespaceCaches, 1, n)]

\* lines 82-88: GetProjectInfo reads the cache entry; its error is returned
\* with no info, otherwise buildProjectInfo runs on the entry
InfoGet ==
    /\ info.pc = "get"
    /\ \E getOk \in BOOLEAN :
          info' = IF getOk
                  THEN [info EXCEPT !.pc = "start"]
                  ELSE [NoInfo EXCEPT !.pc = "done", !.err = "TransportError"]
    /\ UNCHANGED <<projectCache, helmReleases>>
    /\ UNCHANGED managerVars
    /\ UNCHANGED <<parseVars, runtimeVars, listVars>>

ReadNext ==
    \/ InfoGet
    \/ InfoNext
    \/ ListNext

\* GetProjectInfo and ListProjects
ReadSpec == ReadInit /\ [][ReadNext]_vars

(* ------------------------- reading the steps --------------------------- *)

\* a call was entered in the step: it is now in progress, or it returned at
\* once
EnterStep ==
    \/ \E c \in Callers : calls[c].pc = "idle" /\ calls'[c].pc # "idle"
    \/ calls' = calls /\ ret'.pc = "done"

\* the call that was entered in the step
EnteredCall ==
    IF ret'.pc = "done" THEN ret'
    ELSE calls'[CHOOSE c \in Callers : calls[c].pc = "idle" /\ calls'[c].pc # "idle"]

\* the call of caller c after a step of it: in progress, or just returned
After(c) == IF calls'[c].pc = "idle" THEN ret' ELSE calls'[c]

\* the project has a cache entry whose latest task is neither finished nor
\* timed out
Busy(p) == cache[p] # NoCache /\ ~IsLatestTaskFinishedOrTimeout(cache[p])

\* the task is in the queue and no time has passed since it was submitted
TaskLive(s) == s \in DOMAIN jobs /\ jobs[s].age = 0

(* ------------------------------- claims -------------------------------- *)

\* C1: a mutating call answers ProjectBusy exactly when the validation reads
\* a cache entry whose latest task is neither finished nor timed out (a read
\* that fails answers the transport error instead); a call that answers
\* ProjectBusy has submitted no task, and its step leaves the cache, the
\* broker's tasks and the task states as they were.
C1_BusyIff ==
    [][ /\ ret'.result = "ProjectBusy" =>
              /\ EnterStep
              /\ Busy(ret'.project)
              /\ ret'.newSig = 0
              /\ UNCHANGED <<cache, jobs, states, latest>>
        /\ (EnterStep /\ EnteredCall.result # "EmptyReleases"
                      /\ Busy(EnteredCall.project)) =>
              ret'.result \in {"ProjectBusy", "TransportError"} ]_vars

C1_Witness == ret.result = "ProjectBusy" /\ ret.op = "remove"

\* C2: of two concurrent calls on one project, the second fails with
\* ProjectBusy while the task of the first is neither finished nor timed
\* out: two calls in progress never both hold a task they submitted that
\* is still in the queue with no time passed.
C2_SecondCallBusy ==
    \A c, d \in Callers :
        (c # d /\ calls[c].project = calls[d].project
               /\ calls[c].newSig # 0 /\ TaskLive(calls[c].newSig))
        => ~(calls[d].newSig # 0 /\ TaskLive(calls[d].newSig))

\* C3: each project has at most one submitted task that is not finished.
C3_AtMostOneOutstanding ==
    \A p \in Projects : Cardinality({s \in DOMAIN jobs : jobs[s].project = p}) <= 1

\* C4: when no call is in progress, the cache entry of a project holds the
\* signature of the task most recently submitted for the project.
C4_CacheHoldsLatest ==
    Active = {} => \A p \in Projects : cache[p] # NoCache => cache[p].sig = latest[p]

\* the step of caller c left these alone: the cache, the broker's tasks and
\* the task states
Untouched == UNCHANGED <<cache, jobs, states, latest>>

\* C5: DeleteProject on a project without a cache entry answers nil (the
\* transport error if the read of the cache fails), in the step of its
\* validation, having submitted no task and with the cache, the broker's
\* tasks and the task states as they were.
C5_DeleteMissing ==
    [][ (EnterStep /\ EnteredCall.op = "delete"
                   /\ cache[EnteredCall.project] = NoCache) =>
            /\ ret'.pc = "done"
            /\ ret'.result \in {"nil", "TransportError"}
            /\ ret'.newSig = 0
            /\ Untouched ]_vars

C5_Witness ==
    /\ ret.op = "delete" /\ ret.result = "nil"
    /\ cache[ret.project] = NoCache /\ latest[ret.project] = 0

\* C6: UpgradeReleaseInProject and RemoveReleaseInProject on a project
\* without a cache entry answer nil in the step of their validation (the
\* transport error if the read fails): no task submitted, no cache entry
\* written, no release listed.  CreateProject and AddReleasesInProject with
\* releases go on to submit instead.
C6_MissingByOperation ==
    [][ (EnterStep /\ cache[EnteredCall.project] = NoCache) =>
            /\ EnteredCall.op \in {"upgrade", "remove"} =>
                  /\ ret'.pc = "done"
                  /\ ret'.result \in {"nil", "TransportError"}
                  /\ ret'.newSig = 0 /\ ~ret'.listed
                  /\ Untouched
            /\ EnteredCall.op \in {"create", "add"} =>
                  \/ EnteredCall.pc = "submit"
                  \/ ret'.result \in {"EmptyReleases", "TransportError"} ]_vars

C6_Witness ==
    /\ ret.op = "upgrade" /\ ret.result = "nil" /\ ~ret.listed
    /\ cache[ret.project] = NoCache /\ latest[ret.project] = 0

\* C7: UpgradeReleaseInProject past its validation, finding no release of
\* the given name in the project, answers ReleaseNotInProject (the
\* transport error if the listing fails): no task submitted, and the
\* cache, the broker's tasks and the task states as they were.
C7_UpgradeMissingRelease ==
    [][ \A c \in Callers :
          (calls[c].pc = "info" /\ calls[c].op = "upgrade" /\ calls'[c] # calls[c]
             /\ calls[c].rel \notin live[calls[c].project]) =>
            /\ calls'[c].pc = "idle"
            /\ ret'.result \in {"ReleaseNotInProject", "TransportError"}
            /\ ret'.newSig = 0
            /\ Untouched ]_vars

C7_Witness ==
    /\ ret.op = "upgrade" /\ ret.result = "ReleaseNotInProject"
    /\ cache[ret.project] # NoCache

\* C8: RemoveReleaseInProject past its validation, finding no release of
\* the given name in the project, answers nil (the transport error if the
\* listing fails) and leaves the cache, the broker's tasks and the task
\* states as they were.
C8_RemoveMissingRelease ==
    [][ \A c \in Callers :
          (calls[c].pc = "info" /\ calls[c].op = "remove" /\ calls'[c] # calls[c]
             /\ calls[c].rel \notin live[calls[c].project]) =>
            /\ calls'[c].pc = "idle"
            /\ ret'.result \in {"nil", "TransportError"}
            /\ ret'.newSig = 0
            /\ Untouched ]_vars

C8_Witness ==
    /\ ret.op = "remove" /\ ret.result = "nil" /\ ret.listed
    /\ cache[ret.project] # NoCache

\* the cache write of caller c succeeded in the step
WroteCache(c) ==
    /\ calls[c].pc = "write"
    /\ \/ calls'[c].pc \in {"purge", "await"}
       \/ calls'[c].pc = "idle" /\ ret'.result = "nil"

\* the timeout the operation is to use for the caller's timeoutSec
ExpectedTimeout(t) == IF t = 0 THEN 60 ELSE t

\* C9: the latestTaskTimeoutSec written to the cache is 60 when the caller
\* passed timeoutSec = 0 and the caller's timeoutSec otherwise, and a wait
\* ends with the timeout error only once that many seconds have passed.
C9_TimeoutNormalized ==
    [][ \A c \in Callers :
          /\ WroteCache(c) =>
                cache'[calls[c].project].timeoutSec = ExpectedTimeout(After(c).argTimeout)
          /\ calls'[c].pc = "await" =>
                calls'[c].timeoutSec = ExpectedTimeout(calls'[c].argTimeout)
          /\ (calls[c].pc = "await" /\ calls'[c].pc = "idle"
                 /\ ret'.result = "Timeout") =>
                calls[c].waited >= ExpectedTimeout(calls[c].argTimeout) ]_vars

C9_Witness ==
    /\ ret.op = "create" /\ ret.argTimeout = 0 /\ ret.result = "nil"
    /\ cache[ret.project] = [sig |-> ret.newSig, timeoutSec |-> 60]

\* C10: a call past its validation and pre-check submits one task, of the
\* kind of its operation, or gets the broker's error; no other step adds a
\* task; a successful cache write stores the signature that submit
\* returned; and an async call that wrote the cache answers nil.
C10_SubmitThenWrite ==
    [][ /\ \A c \in Callers :
            /\ (calls[c].pc = "submit" /\ calls'[c] # calls[c]) =>
                  \/ /\ calls'[c].pc = "idle" /\ ret'.result = "TransportError"
                     /\ UNCHANGED <<jobs, latest>>
                  \/ /\ calls'[c].pc = "write"
                     /\ calls'[c].newSig \notin DOMAIN jobs
                     /\ calls'[c].newSig > latest[calls[c].project]
                     /\ DOMAIN jobs' = DOMAIN jobs \cup {calls'[c].newSig}
                     /\ jobs'[calls'[c].newSig].kind = calls[c].op
                     /\ jobs'[calls'[c].newSig].project = calls[c].project
            /\ WroteCache(c) =>
                  cache'[calls[c].project].sig = calls[c].newSig
            /\ (calls[c].pc \in {"write", "purge"} /\ calls'[c].pc = "idle"
                   /\ ret'.async /\ ret'.result # "TransportError") =>
                  ret'.result = "nil"
            /\ calls'[c].pc = "await" => ~calls'[c].async
        /\ (DOMAIN jobs' \ DOMAIN jobs # {}) =>
              \E c \in Callers : calls[c].pc = "submit" /\ calls'[c].pc = "write"
      ]_vars

C10_Witness ==
    /\ ret.op = "upgrade" /\ ret.async /\ ret.result = "nil"
    /\ ret.newSig # 0 /\ cache[ret.project].sig = ret.newSig

\* the task s is neither finished nor timed out under the timeout t
Unfinished(s, t) ==
    /\ s \in DOMAIN states /\ ~IsFinished(TaskState(s))
    /\ ~IsTimedOut(TaskState(s).age, t)

\* C11: a ProjectBusy error names the signature of the cache entry that
\* the validation read; and a call entered right after an asynchronous
\* CreateProject returned nil, while the entry holds the signature of that
\* call and its task is neither finished nor timed out, answers ProjectBusy
\* naming the signature of that task (the transport error if the read of
\* the cache fails, the error of an empty release list before any read).
C11_BusyNamesSignature ==
    [][ /\ ret'.result = "ProjectBusy" =>
              /\ ret'.errSig # 0
              /\ ret'.errSig = cache[ret'.project].sig
        /\ (/\ ret.op = "create" /\ ret.async /\ ret.result = "nil"
            /\ cache[ret.project].sig = ret.newSig
            /\ Unfinished(ret.newSig, ExpectedTimeout(ret.argTimeout))
            /\ EnterStep /\ EnteredCall.project = ret.project) =>
              \/ ret'.result = "ProjectBusy" /\ ret'.errSig = ret.newSig
              \/ ret'.result \in {"TransportError", "EmptyReleases"} ]_vars

C11_Witness ==
    /\ ret.result = "ProjectBusy" /\ ret.op = "upgrade" /\ Active = {}
    /\ ret.errSig = cache[ret.project].sig
    /\ ret.errSig \in DOMAIN jobs /\ jobs[ret.errSig].kind = "create"

\* caller c took a step of its call
Moved(c) == calls'[c] # calls[c]

\* C12: a cache write that fails after the submit ends the call with that
\* error in the same step: the cache, the task states and the broker's
\* tasks stay as they were, so the previous entry is kept, the previous
\* task's state is not purged, the call does not wait, and the new task
\* stays submitted with no cache entry holding its signature.  A cache
\* entry only ever receives the signature of the call that writes it.
C12_WriteFailureOrphans ==
    [][ /\ \A c \in Callers :
            (calls[c].pc = "write" /\ Moved(c)
               /\ cache'[calls[c].project].sig # calls[c].newSig) =>
              /\ calls'[c].pc = "idle"
              /\ ret'.result = "TransportError"
              /\ UNCHANGED <<cache, jobs, states>>
              /\ calls[c].newSig \in DOMAIN states'
              /\ \A p \in Projects : cache'[p].sig # calls[c].newSig
        /\ \A p \in Projects :
            (cache'[p] # cache[p] /\ cache'[p] # NoCache) =>
              \E c \in Callers :
                 /\ calls[c].pc = "write" /\ calls[c].project = p
                 /\ cache'[p].sig = calls[c].newSig ]_vars

C12_Witness ==
    /\ ret.result = "TransportError" /\ ret.newSig # 0
    /\ ret.newSig \in DOMAIN jobs
    /\ cache[ret.project] # NoCache /\ cache[ret.project].sig # ret.newSig
    /\ cache[ret.project].sig \in DOMAIN states

\* C13: a call reaches the purge only from a successful cache write and
\* only with a signature read at validation; a task state disappears only
\* in the purge step of a call, and it is the state of that signature; and
\* the purge step leaves the call where it would be had the purge
\* succeeded: returned with nil if async, waiting otherwise.
C13_PurgeBestEffort ==
    [][ /\ \A c \in Callers :
            /\ (calls'[c].pc = "purge" /\ Moved(c)) =>
                  /\ calls[c].pc = "write"
                  /\ calls'[c].oldSig # 0
                  /\ cache'[calls[c].project].sig = calls[c].newSig
            /\ (calls[c].pc = "purge" /\ Moved(c)) =>
                  /\ states' \in {states, Drop(states, calls[c].oldSig)}
                  /\ UNCHANGED <<cache, jobs>>
                  /\ IF calls[c].async
                     THEN calls'[c].pc = "idle" /\ ret'.result = "nil"
                     ELSE calls'[c] = [calls[c] EXCEPT !.pc = "await", !.waited = 0,
                                                         !.oldSig = 0]
        /\ \A s \in DOMAIN states \ DOMAIN states' :
              \E c \in Callers : calls[c].pc = "purge" /\ calls[c].oldSig = s
      ]_vars

C13_Witness ==
    /\ ret.async /\ ret.result = "nil" /\ ret.oldSig # 0
    /\ ret.oldSig \in DOMAIN states /\ ret.oldSig \notin DOMAIN jobs
    /\ cache[ret.project].sig = ret.newSig

\* C14: a call whose cache write replaces an entry goes on to purge the
\* signature that the entry held, so that every overwritten signature is
\* purged when the purges succeed.
C14_OverwrittenPurged ==
    [][ \A c \in Callers :
          (calls[c].pc = "write" /\ Moved(c)
             /\ cache[calls[c].project] # NoCache
             /\ cache'[calls[c].project].sig = calls[c].newSig) =>
            /\ calls'[c].pc = "purge"
            /\ calls'[c].oldSig = cache[calls[c].project].sig ]_vars

\* C15: an async call answers nil in the step of its cache write, or of
\* the purge when there is one, whatever the state of its task then is,
\* and never waits for it.
C15_AsyncReturnsNil ==
    [][ \A c \in Callers :
          /\ (Moved(c) /\ After(c).async
                /\ \/ calls[c].pc = "purge"
                   \/ /\ calls[c].pc = "write" /\ calls[c].oldSig = 0
                      /\ cache'[calls[c].project].sig = calls[c].newSig) =>
                /\ calls'[c].pc = "idle"
                /\ ret'.result = "nil"
                /\ ret'.newSig = calls[c].newSig
          /\ (calls[c].pc = "await" \/ calls'[c].pc = "await") =>
                ~After(c).async ]_vars

C15_Witness ==
    /\ ret.async /\ ret.result = "nil" /\ ret.op = "add"
    /\ ret.newSig \in DOMAIN states /\ states[ret.newSig] = "failure"

\* C16: a call waiting for its task returns in the end, and what it
\* returns is one of three: nil, and then the task has finished with
\* success; the task's error, and then the task has finished with failure;
\* or the timeout error, and then timeoutSec seconds have passed in the
\* wait.
C16_AwaitTerminates ==
    /\ [][ \A c \in Callers :
             (calls[c].pc = "await" /\ calls'[c].pc = "idle") =>
               /\ ~ret'.async
               /\ ret'.result \in {"nil", "TaskFailure", "Timeout"}
               /\ ret'.result = "nil" =>
                     IsSuccess(TaskState(calls[c].newSig))
               /\ ret'.result = "TaskFailure" =>
                     IsFailure(TaskState(calls[c].newSig))
               /\ ret'.result = "Timeout" =>
                     calls[c].waited >= ExpectedTimeout(calls[c].argTimeout) ]_vars
    /\ \A c \in Callers : []<>(calls[c].pc # "await")

C16_Witness ==
    /\ ~ret.async /\ ret.result = "TaskFailure"
    /\ ret.newSig \in DOMAIN states /\ states[ret.newSig] = "failure"

\* the task of the project's cache entry is finished, or more than the
\* entry's latestTaskTimeoutSec seconds old, or its state is gone
EntryOver(p) ==
    LET s == cache[p].sig
    IN  \/ s \notin DOMAIN states
        \/ states[s] \in {"success", "failure"}
        \/ s \in DOMAIN jobs /\ jobs[s].age > cache[p].timeoutSec

\* C17: the step in which a waiting call answers the timeout error
\* leaves the broker's tasks, the task states and the cache as they were:
\* the task is not cancelled and the entry is kept.  A call entered on a
\* project whose entry's task is finished or timed out is not answered
\* ProjectBusy, it goes on with that entry as the old one, and its cache
\* write puts its own signature in place of the old one.
C17_TimeoutSupersession ==
    [][ /\ \A c \in Callers :
            /\ (calls[c].pc = "await" /\ calls'[c].pc = "idle"
                  /\ ret'.result = "Timeout") =>
                  UNCHANGED <<cache, jobs, states, latest>>
            /\ (calls[c].pc = "write" /\ Moved(c) /\ calls[c].oldSig # 0
                  /\ ret'.result # "TransportError") =>
                  /\ cache'[calls[c].project].sig = calls[c].newSig
                  /\ calls[c].newSig # calls[c].oldSig
        /\ (EnterStep /\ cache[EnteredCall.project] # NoCache
                      /\ EntryOver(EnteredCall.project)) =>
              \/ /\ EnteredCall.pc \in {"info", "submit"}
                 /\ EnteredCall.oldSig = cache[EnteredCall.project].sig
              \/ ret'.result \in {"TransportError", "EmptyReleases"} ]_vars

C17_Witness ==
    /\ ret.result = "Timeout" /\ ~ret.async
    /\ ret.newSig \in DOMAIN jobs /\ states[ret.newSig] = "pending"
    /\ cache[ret.project].sig = ret.newSig
    /\ EntryOver(ret.project)

\* a later call has put its signature in place of that of a task that is
\* still not finished
C17_Superseded ==
    \E c \in Callers :
        /\ calls[c].pc = "purge" /\ calls[c].oldSig \in DOMAIN jobs
        /\ cache[calls[c].project].sig = calls[c].newSig

\* C18: CreateProject and AddReleasesInProject with an empty release list
\* answer the error of the empty list in the step they are entered,
\* whether the project has no entry, an idle one or a busy one and whether
\* or not the cache can be read; no task is submitted and the cache, the
\* broker's tasks and the task states stay as they were.  No other call
\* gets that error.
C18_EmptyReleasesFirst ==
    [][ /\ (EnterStep /\ EnteredCall.op \in {"create", "add"}
                      /\ EnteredCall.rel = "") =>
              /\ ret'.pc = "done"
              /\ ret'.result = "EmptyReleases"
              /\ ret'.newSig = 0 /\ ret'.errSig = 0
              /\ Untouched
        /\ ret'.result = "EmptyReleases" =>
              /\ EnterStep
              /\ ret'.op \in {"create", "add"} /\ ret'.rel = "" ]_vars

C18_Witness ==
    /\ ret.result = "EmptyReleases" /\ ret.op = "add" /\ ret.rel = ""
    /\ Busy(ret.project)

\* the subchart relation among the releases of the bundle: release i to
\* release j when the chart of i declares the chart of j as a subchart
ChartRelation ==
    {e \in Ids \X Ids : bundle[e[2]].chartName \in subCharts[bundle[e[1]].chartName]}

\* the place of release v in the list returned
Place(v) == CHOOSE k \in DOMAIN parse.releaseParsed : parse.releaseParsed[k] = v

\* the run has returned the list releaseParsed
Parsed == parse.pc = "done" /\ parse.err = "nil"

\* C19: when the subchart relation of the bundle is a DAG, the list
\* returned has B before A for all releases A and B of the bundle such
\* that B is a value of the dependencies of A.
C19_DependenciesFirst ==
    (Parsed /\ ~HasCycle(Ids, ChartRelation)) =>
        \A A \in Ids : \A k \in DOMAIN parse.deps[A].m :
            LET B == parse.deps[A].m[k]
            IN  Place(B) < Place(A)

\* C20: when the subchart relation of the bundle is a DAG, the run
\* succeeds, unless the chart runtime fails, and the list returned holds
\* every release of the bundle once and nothing else.
C20_Permutation ==
    (parse.pc = "done" /\ ~HasCycle(Ids, ChartRelation)) =>
        \/ parse.err = "TransportError"
        \/ /\ parse.err = "nil"
           /\ Len(parse.releaseParsed) = Len(bundle)
           /\ Visited = Ids

\* the graph the run builds from the bundle
BundleGraph == UNION {EdgesFrom(i, ProjectParamsMap) : i \in Ids}

\* C21: a run on a bundle whose graph has no unique root (no vertex
\* without incoming edges, or more than one) or has a cycle ends with an
\* error returned and no list; a run returns a list only when the graph has
\* a unique root and no cycle and the walk has visited every release.
C21_NoRootOrCycleFails ==
    parse.pc = "done" =>
        /\ (Cardinality(Roots(Ids, BundleGraph)) # 1 \/ HasCycle(Ids, BundleGraph)) =>
              /\ parse.err \in {"TransportError", "NoRootOrCyclic", "Cyclic"}
              /\ parse.out = NilList
        /\ ~parse.out.isNil =>
              /\ parse.err = "nil"
              /\ Cardinality(Roots(Ids, BundleGraph)) = 1
              /\ ~HasCycle(Ids, BundleGraph)
              /\ parse.out.list = parse.releaseParsed /\ Visited = Ids

C21_Witness ==
    /\ parse.pc = "done" /\ parse.err = "Cyclic" /\ parse.out = NilList
    /\ Cardinality(Roots(Ids, BundleGraph)) = 1
    /\ Len(parse.releaseParsed) = 0

\* the keys of the dependencies of release i on input, and now
InputKeys(i) == DOMAIN bundle[i].deps.m
Keys(i) == DOMAIN parse.deps[i].m

\* C22: at every point of a run each release still has every entry its
\* dependencies map had on input, with the value it had; and every entry
\* added has as key a subchart of the release's chart that is the chart of
\* a release of the bundle and was not a key of the map on input.
C22_AugmentOnly ==
    parse.pc # "none" =>
        \A i \in Ids :
            /\ \A k \in InputKeys(i) :
                  k \in Keys(i) /\ parse.deps[i].m[k] = bundle[i].deps.m[k]
            /\ \A k \in Keys(i) \ InputKeys(i) :
                  /\ k \in subCharts[bundle[i].chartName]
                  /\ \E j \in Ids : bundle[j].chartName = k

C22_Witness ==
    /\ Parsed
    /\ \E i \in Ids : InputKeys(i) # {} /\ Keys(i) \ InputKeys(i) # {}

\* the releases of the bundle with chart s, and the one registered for s:
\* the last of them in the bundle
OfChart(s) == {j \in Ids : bundle[j].chartName = s}
Registered(s) == CHOOSE j \in OfChart(s) : \A h \in OfChart(s) : h <= j

\* C23: when the run has returned a list, every release R of the bundle
\* has, for every subchart s of its chart that is the chart of a release of
\* the bundle and was not a key of R's dependencies on input, the entry
\* s -> name of the release registered for s.
C23_SubchartsWired ==
    Parsed =>
        \A R \in Ids : \A s \in subCharts[bundle[R].chartName] :
            (OfChart(s) # {} /\ s \notin InputKeys(R)) =>
                s \in Keys(R) /\ parse.deps[R].m[s] = Registered(s)

C23_Witness ==
    /\ Parsed
    /\ \E R \in Ids : \E s \in subCharts[bundle[R].chartName] :
          /\ Cardinality(OfChart(s)) = 2 /\ s \notin InputKeys(R)
          /\ parse.deps[R].m[s] = Registered(s)

\* the run of brainFuckRuntimeDepParse has returned its list, on the
\* add/upgrade path and on the remove path
Added == rt.pc = "done" /\ rt.err = "nil" /\ ~isRemove
Removed == rt.pc = "done" /\ rt.err = "nil" /\ isRemove

\* the names of the releases in the list returned
Affected == {rt.out.list[k].name : k \in DOMAIN rt.out.list}

\* the chart of release R of the project has the chart as a subchart, and
\* the dependencies of R on input have the chart as a key
Declares(R, chart) == chart \in subCharts[projectInfo[R].chartName]
Lists(R, chart) == chart \in DOMAIN projectInfo[R].deps.m

\* C24: on the add/upgrade path, every release R of the project whose
\* chart has the chart of the incoming release as a subchart and whose
\* dependencies do not list that chart is in the affected list returned.
C24_DeclaringParentsAffected ==
    Added =>
        \A R \in DOMAIN projectInfo :
            (Declares(R, releaseParams.chartName) /\ ~Lists(R, releaseParams.chartName))
                => R \in Affected

C24_Witness ==
    /\ Added /\ releaseParams.name = NewRelease
    /\ \E R \in DOMAIN projectInfo :
          /\ Declares(R, releaseParams.chartName)
          /\ projectInfo[R].deps = EmptyDeps
          /\ Len(rt.out.list) = 1 /\ rt.out.list[1].name = R

\* C25: on the add/upgrade path, every release of the affected list
\* returned has in its dependencies the chart of the incoming release
\* bound to the name of the incoming release.
C25_AffectedNameIncoming ==
    Added =>
        \A k \in DOMAIN rt.out.list :
            LET U == rt.out.list[k]
            IN  /\ releaseParams.chartName \in DOMAIN U.deps.m
                /\ U.deps.m[releaseParams.chartName] = releaseParams.name

\* the dependencies of release R of the project on input name the release
Names(R, name) ==
    \E k \in DOMAIN projectInfo[R].deps.m : projectInfo[R].deps.m[k] = name

\* C26: on the add/upgrade path, a release is in the affected list
\* returned only if its chart has the chart of the incoming release as a
\* subchart and its dependencies on input neither had that chart as a key
\* nor named the incoming release.
C26_OnlyNewParentsAffected ==
    Added =>
        \A U \in Affected :
            /\ Declares(U, releaseParams.chartName)
            /\ ~Lists(U, releaseParams.chartName)
            /\ ~Names(U, releaseParams.name)

\* the releases of the project with chart s
InProject(s) == {R \in DOMAIN projectInfo : projectInfo[R].chartName = s}

\* on the add/upgrade path the dependencies of the incoming release have,
\* for every subchart s of its chart that was not a key on input and is the
\* chart of a release of the project, the entry s -> name of such a release
IncomingWired ==
    Added =>
        \A s \in subCharts[releaseParams.chartName] :
            (s \notin DOMAIN releaseParams.deps.m /\ InProject(s) # {}) =>
                s \in DOMAIN rt.deps.m /\ rt.deps.m[s] \in InProject(s)

\* the entries of the incoming release on input keep their values
IncomingKept ==
    Added =>
        \A k \in DOMAIN releaseParams.deps.m :
            k \in DOMAIN rt.deps.m /\ rt.deps.m[k] = releaseParams.deps.m[k]

\* C27: on the add/upgrade path the incoming release gains, for every
\* subchart s of its chart that was not a key of its dependencies and is
\* the chart of a release of the project, the entry s -> name of such a
\* release; its entries on input keep their values; and the incoming
\* release is not in the affected list returned.
C27_IncomingAbsorbs ==
    /\ IncomingWired
    /\ IncomingKept
    /\ Added => releaseParams.name \notin Affected

\* on the remove path no release of the list returned has an entry keyed by
\* the chart of the outgoing release
OutgoingChartDeleted ==
    Removed =>
        \A k \in DOMAIN rt.out.list :
            releaseParams.chartName \notin DOMAIN rt.out.list[k].deps.m

\* C28: on the remove path, every release U of the affected list returned
\* had before the call an entry of its dependencies keyed by the chart of
\* the outgoing release, and has no such entry on return.
C28_AffectedListedOutgoingChart ==
    /\ Removed => \A U \in Affected : Lists(U, releaseParams.chartName)
    /\ OutgoingChartDeleted

\* the project of two releases, a of chart x and b of chart y, b depending
\* on a under the key x, and the removal of a
RemoveOfDependedOn ==
    /\ isRemove
    /\ DOMAIN projectInfo = {"a", "b"}
    /\ projectInfo["a"].chartName = "x" /\ projectInfo["a"].deps.m = << >>
    /\ projectInfo["b"].chartName = "y"
    /\ projectInfo["b"].deps = [isNil |-> FALSE, m |-> [k \in {"x"} |-> "a"]]
    /\ releaseParams.name = "a" /\ releaseParams.chartName = "x"

\* C29: on the remove path, the affected list returned holds exactly the
\* releases of the project whose dependencies name the outgoing release,
\* each once; removing a from the project where b depends on a under a's
\* chart returns b alone, with that entry deleted.
C29_RemoveAffectsDependents ==
    Removed =>
        /\ Affected = {R \in DOMAIN projectInfo : Names(R, releaseParams.name)}
        /\ Len(rt.out.list) = Cardinality(Affected)
        /\ RemoveOfDependedOn =>
              rt.out.list = << [name |-> "b", chartName |-> "y", deps |-> EmptyDeps] >>

C29_Witness ==
    /\ Removed /\ RemoveOfDependedOn
    /\ Len(rt.out.list) = 1 /\ rt.out.list[1].name = "b"
    /\ "x" \notin DOMAIN rt.out.list[1].deps.m

\* buildProjectInfo returned an info
Built == info.pc = "done" /\ info.err = "nil"

\* the latest task of the cache entry is named and failed
LatestFailed ==
    LET taskState == GetLatestTaskState(projectCache)
    IN  ~taskState.isNil /\ taskState.TaskName # << >> /\ IsFailure(taskState)

\* string s contains string t
Contains(s, t) ==
    \E i \in 0..(Len(s) - Len(t)) : SubSeq(s, i + 1, i + Len(t)) = t

\* the signature of the cache entry as name-uuid
Signature ==
    projectCache.LatestTaskSignature.Name \o <<"-">> \o projectCache.LatestTaskSignature.UUID

\* C30: when the latest task of the project is named and failed, the info
\* returned is not ready and its message contains the signature of the
\* cache entry (name-uuid) and the error text of the task, whatever the
\* releases are.
C30_FailedTaskMasksReleases ==
    (Built /\ LatestFailed) =>
        /\ ~info.Ready
        /\ Contains(info.Message, Signature)
        /\ Contains(info.Message, GetLatestTaskState(projectCache).Error)

C30_Witness ==
    /\ Built /\ LatestFailed
    /\ GetLatestTaskState(projectCache).Error = <<"kubelet EOF">>
    /\ Len(info.Releases) = 2
    /\ \A i \in 1..2 : info.Releases[i].Ready
    /\ ~info.Ready /\ Contains(info.Message, <<"kubelet EOF">>)

\* the latest task of the cache entry is named and neither a success nor a
\* failure
LatestInProgress ==
    LET taskState == GetLatestTaskState(projectCache)
    IN  /\ ~taskState.isNil /\ taskState.TaskName # << >>
        /\ ~IsSuccess(taskState) /\ ~IsFailure(taskState)

\* C31: when the latest task of the project is named and neither a success
\* nor a failure, the info returned is not ready and its message is "please
\* wait for the project latest task <name>-<uuid> finished" with the
\* signature of the cache entry, whatever the releases are; no info is
\* ready while the latest task is in progress.
C31_InProgressTaskNotReady ==
    (Built /\ LatestInProgress) =>
        /\ ~info.Ready
        /\ info.Message = <<"please wait for the project latest task ">> \o Signature
                            \o <<" finished">>

C31_Witness ==
    /\ Built /\ LatestInProgress
    /\ GetLatestTaskState(projectCache).state = "started"
    /\ Len(info.Releases) = 2
    /\ \A i \in 1..2 : info.Releases[i].Ready
    /\ ~info.Ready

\* the latest task of the cache entry is absent, unnamed or a success
LatestSilent ==
    LET taskState == GetLatestTaskState(projectCache)
    IN  taskState.isNil \/ taskState.TaskName = << >> \/ IsSuccess(taskState)

\* the releases of the info that are not ready
NotReady == {i \in 1..Len(info.Releases) : ~info.Releases[i].Ready}

\* C32: when the latest task is absent, unnamed or a success, the info is
\* derived from the releases alone: no release gives not ready and "no
\* release can be found"; otherwise the info is ready iff every release is
\* ready, and when one is not the message is that of the first such
\* release of the list.
C32_DerivedFromReleases ==
    (Built /\ LatestSilent) =>
        /\ info.Releases = helmReleases
        /\ Len(info.Releases) = 0 =>
              ~info.Ready /\ info.Message = <<"no release can be found">>
        /\ Len(info.Releases) > 0 =>
              /\ info.Ready <=> NotReady = {}
              /\ \A i \in NotReady :
                    (\A j \in NotReady : i <= j) =>
                        info.Message = info.Releases[i].Message

C32_Witness ==
    /\ Built /\ IsSuccess(GetLatestTaskState(projectCache))
    /\ GetLatestTaskState(projectCache).TaskName # << >>
    /\ Len(info.Releases) = 3
    /\ info.Releases[1].Ready
    /\ ~info.Releases[2].Ready /\ info.Releases[2].Message = <<"m1">>
    /\ ~info.Releases[3].Ready /\ info.Releases[3].Message = <<"m2">>
    /\ ~info.Ready /\ info.Message = <<"m1">>

\* ListProjects returned after it had read the caches of the namespace
Listed == listing.pc = "done" /\ listing.result # "TransportError"

\* the goroutines ListProjects started, and those whose buildProjectInfo
\* failed
Started == 1..Len(listing.projectCaches)
Failed == {g \in Started : goroutines[g].err1 # "nil"}

\* C33: ListProjects returns only when each goroutine it started has
\* finished; if the buildProjectInfo of one of them failed it returns an
\* error and no list, in every interleaving; if none failed the list has
\* one item for each cache of the namespace and Num is the number of items.
C33_ListJoinsAndAborts ==
    Listed =>
        /\ \A g \in Started : goroutines[g].pc = "done"
        /\ Failed # {} =>
              /\ listing.isNil
              /\ \E g \in Failed : listing.result = goroutines[g].err1
        /\ Failed = {} =>
              /\ ~listing.isNil /\ listing.result = "nil"
              /\ Len(listing.Items) = Len(listing.projectCaches)
              /\ {listing.Items[i] : i \in DOMAIN listing.Items}
                    = {listing.projectCaches[i] : i \in DOMAIN listing.projectCaches}
              /\ listing.Num = Len(listing.Items)

C33_Witness ==
    /\ Listed /\ Len(listing.projectCaches) = 3
    /\ Cardinality(Failed) = 2
    /\ Len(listing.Items) = 1
    /\ listing.isNil /\ listing.result = "p1"

\* C34: ListProjects and GetProjectInfo submit no task, write and delete no
\* cache entry and purge no task state: no step of a read operation
\* changes the broker's tasks, the task states or the cache entries,
\* whatever the latest task of the project is.
C34_ReadsChangeNothing ==
    [][/\ cache' = cache
       /\ jobs' = jobs
       /\ states' = states
       /\ latest' = latest
       /\ live' = live]_vars

C34_Witness ==
    /\ Built /\ LatestInProgress
    /\ cache["p1"].sig = 1
    /\ 1 \in DOMAIN jobs
    /\ 1 \in DOMAIN states /\ states[1] = "started"

\* a DeleteProject that submitted its task returned nil in the step
DeleteReturned ==
    ret'.pc = "done" /\ ret'.op = "delete" /\ ret'.result = "nil" /\ ret'.newSig # 0

\* no step of a DeleteProject call removes the cache entry of its project
DeleteKeepsEntry ==
    \A c \in Callers :
        (calls[c].op = "delete" /\ Moved(c) /\ cache[calls[c].project] # NoCache)
        => cache'[calls[c].project] # NoCache

\* when a DeleteProject returns nil while its task is in the queue with no
\* time passed, the cache entry holds the signature of that task
DeleteHoldsEntry ==
    (DeleteReturned /\ ret'.newSig \in DOMAIN jobs' /\ jobs'[ret'.newSig].age = 0)
    => cache'[ret'.project].sig = ret'.newSig

\* the latest task of the project's cache entry is a delete task, neither
\* finished nor timed out
BusyDeleting(p) ==
    /\ Busy(p)
    /\ cache[p].sig \in DOMAIN jobs /\ jobs[cache[p].sig].kind = "delete"

\* a call entered while the project is being deleted answers ProjectBusy
DeleteBlocks ==
    (EnterStep /\ EnteredCall.result # "EmptyReleases"
               /\ BusyDeleting(EnteredCall.project))
    => ret'.result \in {"ProjectBusy", "TransportError"}

\* C35: DeleteProject on a project that exists and is not busy does not
\* remove the cache entry itself; when it returns, the entry holds the
\* signature of its delete task (unless the task has finished or time has
\* passed), and while that task is neither finished nor timed out every
\* further mutating call on the project, CreateProject included, answers
\* ProjectBusy.
C35_DeleteLocksProject ==
    [][DeleteKeepsEntry /\ DeleteHoldsEntry /\ DeleteBlocks]_vars

\* the project has a cache entry whose latest task has finished, or has been
\* in the queue for longer than the entry's timeout
Unlocked(p) ==
    /\ cache[p] # NoCache
    /\ LET st == TaskState(cache[p].sig)
       IN  st.present /\ (IsFinished(st) \/ IsTimedOut(st.age, cache[p].timeoutSec))

\* C36: once the latest task of a cache entry has finished, as a success or
\* as a failure, or its timeout has passed, the next mutating call on the
\* project passes the validation and goes on (a call without releases and
\* a failed cache read aside); a project whose latest task failed accepts
\* a new operation.
C36_FinishedOrTimedOutUnlocks ==
    [][(/\ EnterStep
        /\ Unlocked(EnteredCall.project)
        /\ EnteredCall.result \notin {"EmptyReleases", "TransportError"})
       => /\ ret'.result # "ProjectBusy"
          /\ EnteredCall.pc \in {"info", "submit"}
          /\ EnteredCall.oldSig = cache[EnteredCall.project].sig]_vars

C36_Witness ==
    \E c \in Callers :
        /\ calls[c].pc = "submit" /\ calls[c].op = "add"
        /\ calls[c].oldSig # 0 /\ calls[c].oldSig \in DOMAIN states
        /\ states[calls[c].oldSig] = "failure"
        /\ cache[calls[c].project].sig = calls[c].oldSig

\* C37: a call whose task submission fails, and an upgrade or remove whose
\* listing of the project's releases fails, returns the error in that
\* step with no task of its own; the cache entries, the broker's tasks, the
\* task states and the releases are as they were, so nothing is written
\* and nothing is purged.
C37_FailureChangesNothing ==
    [][\A c \in Callers :
         /\ (calls[c].pc \in {"info", "submit"} /\ Moved(c)
                /\ ret'.result = "TransportError") =>
               /\ calls'[c] = IdleCall
               /\ ret'.newSig = 0
               /\ cache' = cache /\ jobs' = jobs /\ states' = states
               /\ latest' = latest /\ live' = live
         /\ (calls[c].pc = "submit" /\ Moved(c) /\ DOMAIN jobs' = DOMAIN jobs) =>
               ret'.result = "TransportError"]_vars

C37_Witness ==
    /\ ret.op = "delete" /\ ret.result = "TransportError"
    /\ ret.oldSig # 0 /\ ret.newSig = 0
    /\ cache[ret.project].sig = ret.oldSig
    /\ ret.oldSig \in DOMAIN states

\* the signatures whose task state is removed in the step
Purged == DOMAIN states \ DOMAIN states'

C39_NilMapTreatedAsEmpty ==
    parse.pc = "done" =>
        /\ parse.err # "panic"
        /\ parse.err = "nil" =>
              \A i \in Ids :
                  (bundle[i].deps.isNil /\ DownEdges(i, parse.edges) # {}) =>
                      /\ ~parse.deps[i].isNil
                      /\ Keys(i) = {bundle[j].chartName : j \in DownEdges(i, parse.edges)}

\* the graph of the run has a cycle
RtCyclic == HasCycle(DOMAIN projectInfo \cup {releaseParams.name}, rt.edges)

\* C40: brainFuckRuntimeDepParse checks the graph for neither cycles nor a
\* root: a run ends with a list and no error, or on the add/upgrade path
\* with the error of the chart runtime's auto-dependency lookup and no
\* list; the remove path never ends with an error; a cycle in the graph
\* changes none of this.
C40_OnlyLookupErrors ==
    rt.pc = "done" =>
        /\ rt.err \in {"nil", "TransportError"}
        /\ rt.err = "TransportError" => ~isRemove /\ rt.out = NilList
        /\ rt.err = "nil" => ~rt.out.isNil /\ rt.out.list = rt.affectReleases
        /\ isRemove => rt.err = "nil"

C40_Witness ==
    /\ rt.pc = "done" /\ rt.err = "nil" /\ ~isRemove
    /\ RtCyclic
    /\ releaseParams.name = NewRelease
    /\ Len(rt.out.list) = 2

====
